---- MODULE Spec2Model ----
(***************************************************************************)
(* Model of the GEV streaming core of cameleon:                            *)
(*   cameleon/src/gige/stream_handle.rs  (StreamHandle, StreamingLoop)     *)
(*   cameleon/src/gige/stream_handle.rs  (PayloadBuilder, StreamParams)    *)
(*   cameleon/src/gige/mod.rs            (From<gev::Error> conversions)    *)
(*   device/src/gige/channel.rs          (ControlChannel, ReceiveChannel)  *)
(*                                                                         *)
(* Threads: one controlling thread that owns the StreamHandle (&mut self   *)
(* methods), reader threads that call the &self methods read_leader,       *)
(* read_payload and read_trailer, and the worker threads spawned by        *)
(* start_streaming_loop.  Blocking calls (Mutex::lock, the bulk recv, the  *)
(* pool poll, block_on(completion_rx)) are split at the blocking point.    *)
(*                                                                         *)
(* Specifications: Spec (the handle and its threads), SpecMut (the handle  *)
(* and its workers with params_mut), SpecBuild (the payload builder on one *)
(* block), SpecWalk (its chunk walk, one iteration at a time), SpecLoop    *)
(* (one session seen from the wire), SpecChannel (the                      *)
(* channels and the error conversions), SpecParams (maximum_payload_size   *)
(* on machine words), SpecIter (the payload buffers of the iterations of   *)
(* run), SpecReadPayload (one call of read_payload).  Each leaves the      *)
(* variables of the others at their initial values.                        *)
(***************************************************************************)
EXTENDS Integers, Sequences, FiniteSets, TLC

\* Number of worker thread slots (threads that can be alive at once).
NumWorkers == 2
\* Number of threads that call the &self read methods.
NumReaders == 1
\* Largest buffer length a caller passes to a read method.
MaxBuf == 3
\* Cap of the counter of timed-out receives after a cancel signal.
MaxTimeouts == 3
\* Width in bits of the machine word (usize) of the modelled target.
WordBits == 2
\* Largest number of iterations of a run of the streaming loop.
MaxIters == 3
\* Largest number of buffers the consumer returns during a run.
MaxGiven == 2
\* Largest value of a payload field of the parameters of read_payload, and
\* largest byte count a poll reports.
MaxSize == 2

Workers == 1..NumWorkers
Readers == 1..NumReaders

\* StreamParams (the timeout is a duration; every blocking call uses it).
StreamParams(l, t, s, c, f1, f2) ==
    [leader_size |-> l, trailer_size |-> t, payload_size |-> s,
     payload_count |-> c, payload_final1_size |-> f1, payload_final2_size |-> f2]

\* StreamParams::default()
DefaultParams == StreamParams(0, 0, 0, 0, 0, 0)

\* The parameter sets a device may report to StreamParams::from_control.
DiscoverableParams ==
    { StreamParams(1, 1, 1, 2, 1, 0),
      StreamParams(2, 1, 1, 1, 0, 1),
      StreamParams(1, 2, 0, 0, 0, 0) }

\* The kinds of ControlError a register read of from_control fails with;
\* InvalidDevice also stands for a device without SIRM.
ControlErrorKinds == {"Io", "Busy", "Disconnected", "Timeout", "InvalidDevice"}

\* StreamParams::from_control: Ok(p), or a ControlError (ok = FALSE).
DiscoverOutcomes ==
    [ok : {TRUE}, p : DiscoverableParams, err : {"none"}]
    \cup [ok : {FALSE}, p : {DefaultParams}, err : ControlErrorKinds]

\* maximum_payload_size() when none of its operations overflows.
maximum_payload_size(p) ==
    p.payload_size * p.payload_count + p.payload_final1_size + p.payload_final2_size

\* usize: the machine word, WordBits wide.
USIZE_MODULUS == 2 ^ WordBits
Usize == 0 .. USIZE_MODULUS - 1

\* The result of a usize expression: a value, or the panic of an overflow
\* check ("attempt to multiply with overflow", "attempt to add with overflow").
Value(v) == [kind |-> "value", v |-> v]
OverflowPanic == [kind |-> "panic", v |-> 0]

\* a * b and a + b on usize.  With overflow checks (the debug profile) an
\* overflow panics; without them (the release profile) the result wraps.
usize_mul(a, b, overflow_checks) ==
    IF a.kind = "panic" \/ b.kind = "panic" THEN OverflowPanic
    ELSE IF overflow_checks /\ a.v * b.v >= USIZE_MODULUS THEN OverflowPanic
    ELSE Value((a.v * b.v) % USIZE_MODULUS)
usize_add(a, b, overflow_checks) ==
    IF a.kind = "panic" \/ b.kind = "panic" THEN OverflowPanic
    ELSE IF overflow_checks /\ a.v + b.v >= USIZE_MODULUS THEN OverflowPanic
    ELSE Value((a.v + b.v) % USIZE_MODULUS)

\* StreamParams::maximum_payload_size on usize fields, as it is evaluated:
\* (payload_size * payload_count + payload_final1_size) + payload_final2_size.
maximum_payload_size_usize(p, overflow_checks) ==
    usize_add(usize_add(usize_mul(Value(p.payload_size), Value(p.payload_count),
                                  overflow_checks),
                        Value(p.payload_final1_size), overflow_checks),
              Value(p.payload_final2_size), overflow_checks)

\* StreamParams whose payload fields range over the whole machine word.
WordParams ==
    {StreamParams(0, 0, s, c, f1, f2) : s \in Usize, c \in Usize, f1 \in Usize, f2 \in Usize}

\* Number of slices read_payload submits to the AsyncPool.
SubmitCount(p) ==
    p.payload_count + (IF p.payload_final1_size # 0 THEN 1 ELSE 0)
                    + (IF p.payload_final2_size # 0 THEN 1 ELSE 0)

\* The slices read_payload submits, in order.
SliceSizes(p) ==
    [i \in 1..SubmitCount(p) |->
        IF i <= p.payload_count THEN p.payload_size
        ELSE IF i = p.payload_count + 1 /\ p.payload_final1_size # 0
        THEN p.payload_final1_size
        ELSE p.payload_final2_size]

\* The value of cursor + size when the i-th slice is taken.
RECURSIVE SliceEnd(_, _)
SliceEnd(p, i) == IF i = 0 THEN 0 ELSE SliceEnd(p, i - 1) + SliceSizes(p)[i]

\* How many slices lie inside a buffer of buflen bytes; taking the next one
\* panics (slice index out of range).
FittingSlices(p, buflen) ==
    Cardinality({i \in 1..SubmitCount(p) : SliceEnd(p, i) <= buflen})

\* From<gev::Error> for StreamError: the kinds a failed transfer maps to.
TransportErrors == {"Io", "Disconnected", "Timeout"}

NoHolder == <<"none", 0>>

(***************************************************************************)
(* PayloadBuilder: the block a streaming iteration has read, and the       *)
(* payload or error built from it.                                         *)
(***************************************************************************)

\* Length of the payload buffers of the builder specification.
BufLen == 26
\* Largest value of a byte of a payload buffer that is not zero.
MaxByte == 3
\* Largest block id a leader carries.
MaxBlockId == 2

BlockIds == 1..MaxBlockId
PayloadTypes == {"Image", "ImageExtendedChunk", "Chunk"}
PayloadStatuses == {"Success", "Failure"}

\* usize::checked_sub: None is -1.
checked_sub_saturating(a, b) == IF a >= b THEN a - b ELSE 0
checked_sub(a, b) == IF a >= b THEN a - b ELSE -1

\* u32::from_be_bytes(buf[off..off + 4]) (sequences count from 1).
from_le_bytes(buf, off) ==
    buf[off + 4] * 16777216 + buf[off + 3] * 65536 + buf[off + 2] * 256 + buf[off + 1]
from_be_bytes(buf, off) ==
    buf[off + 1] * 16777216 + buf[off + 2] * 65536 + buf[off + 3] * 256 + buf[off + 4]

CHUNK_ID_LEN == 4
CHUNK_SIZE_LEN == 4

Payload(id, ptype, has_info, image_size, valid) ==
    [kind |-> "Ok", msg |-> "none", id |-> id, payload_type |-> ptype,
     has_image_info |-> has_info, image_size |-> image_size,
     valid_payload_size |-> valid]
InvalidPayload(msg) ==
    [kind |-> "InvalidPayload", msg |-> msg, id |-> 0, payload_type |-> "none",
     has_image_info |-> FALSE, image_size |-> 0, valid_payload_size |-> 0]
NotBuilt ==
    [kind |-> "none", msg |-> "none", id |-> 0, payload_type |-> "none",
     has_image_info |-> FALSE, image_size |-> 0, valid_payload_size |-> 0]

\* The loop of build_image_extended_payload: Ok(image_size) or the message
\* of the InvalidPayload it returns.
RECURSIVE chunk_walk(_, _)
chunk_walk_first_record(payload_buf, current_offset) ==
    LET size_at == checked_sub(current_offset, CHUNK_SIZE_LEN)
    IN  IF size_at = -1
        THEN [ok |-> FALSE, image_size |-> 0, msg |-> "size field missing"]
        ELSE LET data_size == from_be_bytes(payload_buf, size_at)
                 next_offset == checked_sub(size_at, data_size + CHUNK_ID_LEN)
             IN  IF next_offset = 0
                 THEN [ok |-> TRUE, image_size |-> data_size, msg |-> "none"]
                 ELSE [ok |-> FALSE, image_size |-> 0,
                       msg |-> "chunk data size is smaller than specified size"]
chunk_walk(payload_buf, current_offset) ==
    LET size_at == checked_sub(current_offset, CHUNK_SIZE_LEN)
    IN  IF size_at = -1
        THEN [ok |-> FALSE, image_size |-> 0, msg |-> "size field missing"]
        ELSE LET data_size == from_be_bytes(payload_buf, size_at)
                 next_offset == checked_sub(size_at, data_size + CHUNK_ID_LEN)
             IN  IF next_offset = -1
                 THEN [ok |-> FALSE, image_size |-> 0,
                       msg |-> "chunk data size is smaller than specified size"]
                 ELSE IF next_offset = 0
                 THEN [ok |-> TRUE, image_size |-> data_size, msg |-> "none"]
                 ELSE chunk_walk(payload_buf, next_offset)

image_size_as_read(b) == b.read_payload_size
image_size_of_image(b) == b.valid_payload_size

build_image_payload(b) ==
    IF ~b.leader_ok THEN InvalidPayload("specific leader")
    ELSE IF ~b.trailer_ok THEN InvalidPayload("specific trailer")
    ELSE Payload(b.block_id, "Image", TRUE, image_size_of_image(b),
                 b.valid_payload_size)

build_image_extended_payload(b) ==
    IF ~b.leader_ok THEN InvalidPayload("specific leader")
    ELSE IF ~b.trailer_ok THEN InvalidPayload("specific trailer")
    ELSE LET walk == chunk_walk(b.payload_buf, b.valid_payload_size)
         IN  IF walk.ok
             THEN Payload(b.block_id, "ImageExtendedChunk", TRUE,
                          walk.image_size, b.valid_payload_size)
             ELSE InvalidPayload(walk.msg)

build_chunk_payload(b) ==
    IF ~b.leader_ok THEN InvalidPayload("specific leader")
    ELSE IF ~b.trailer_ok THEN InvalidPayload("specific trailer")
    ELSE Payload(b.block_id, "Chunk", FALSE, 0, b.valid_payload_size)

\* The trailer promises more payload bytes than were read.
payload_is_short_by_two(b) == b.valid_payload_size > b.read_payload_size + 1
payload_is_short(b) == b.valid_payload_size > b.read_payload_size

Block(status, valid, read, ptype, leader_ok, trailer_ok, id, buf) ==
    [payload_status |-> status, valid_payload_size |-> valid,
     read_payload_size |-> read, payload_type |-> ptype,
     leader_ok |-> leader_ok, trailer_ok |-> trailer_ok,
     block_id |-> id, payload_buf |-> buf]

ZeroBuf == [i \in 1..BufLen |-> 0]
NoBlock == Block("none", 0, 0, "none", FALSE, FALSE, 0, <<>>)

\* Payload buffers with at most two bytes that are not zero.
SparseBufs ==
    { [i \in 1..BufLen |-> IF i = p1 THEN v1 ELSE IF i = p2 THEN v2 ELSE 0] :
        p1 \in 1..BufLen, p2 \in 1..BufLen, v1 \in 0..MaxByte, v2 \in 0..MaxByte }

\* Blocks of every status, type and size over an all-zero payload buffer.
\* read_payload_size never exceeds the buffer read_payload filled.
PlainBlocks ==
    { Block(status, valid, read, ptype, leader_ok, trailer_ok, id, ZeroBuf) :
        status \in PayloadStatuses, valid \in 0..BufLen, read \in 0..BufLen,
        ptype \in PayloadTypes, leader_ok \in BOOLEAN, trailer_ok \in BOOLEAN,
        id \in BlockIds }

\* Fully received, well-formed ImageExtendedChunk blocks over every sparse
\* payload buffer.
ChunkBlocks ==
    { Block("Success", valid, BufLen, "ImageExtendedChunk", TRUE, TRUE, 1, buf) :
        valid \in 0..BufLen, buf \in SparseBufs }

\* PayloadBuilder::build
build(b) ==
    IF b.payload_status # "Success"
    THEN InvalidPayload("trailer status indicates error")
    ELSE IF payload_is_short(b)
    THEN InvalidPayload("the actual read payload size is smaller")
    ELSE CASE b.payload_type = "Image" -> build_image_payload(b)
           [] b.payload_type = "ImageExtendedChunk" -> build_image_extended_payload(b)
           [] b.payload_type = "Chunk" -> build_chunk_payload(b)


VARIABLES
    cpc,              \* position of the controlling thread
    cop,              \* public method the controlling thread is inside
    cw,               \* worker whose completion_rx stop_streaming_loop awaits
    last,             \* the last public &mut call that returned, and its result
    is_opened,        \* ReceiveChannel::is_opened
    params,           \* StreamHandle::params
    cancellation_tx,  \* 0 = None, w = Some(sender of worker w's cancel channel)
    completion_rx,    \* 0 = None, w = Some(receiver of worker w's completion)
    mutex,            \* holder of the Mutex around the ReceiveChannel
    poisoned,         \* the Mutex is poisoned
    wpc,              \* position of each worker thread
    wparams,          \* StreamingLoop::params of each worker
    cancel,           \* state of each worker's cancellation oneshot
    complete,         \* state of each worker's completion oneshot
    polls,            \* transfers outstanding in the worker's AsyncPool
    wev,              \* last event of each worker's loop
    timeouts,         \* timed-out recv/poll calls of a worker after its cancel
    rpc,              \* position of each reader thread
    rkind,            \* which read method the reader is in
    rbuf,             \* buf.len() the reader passed
    rpolls,           \* transfers outstanding in the reader's AsyncPool
    rres              \* result of the reader's last call

hvars == <<is_opened, params, cancellation_tx, completion_rx>>
cvars == <<cpc, cop, cw, last>>
wvars == <<wpc, wparams, cancel, complete, polls, wev, timeouts>>
rvars == <<rpc, rkind, rbuf, rpolls, rres>>
svars == <<cpc, cop, cw, last, is_opened, params, cancellation_tx, completion_rx,
           mutex, poisoned, wpc, wparams, cancel, complete, polls, wev, timeouts,
           rpc, rkind, rbuf, rpolls, rres>>

\* The data path: the block handed to the payload builder and what is built.
VARIABLES
    blk,              \* the block a streaming iteration has read
    bres,             \* Ok(Payload) or the error built from it
    cwalk             \* the chunk walk of the builder: cursor and reads so far

bvars == <<blk, bres, cwalk>>

\* One streaming session seen from the wire.
VARIABLES
    wire,             \* block ids of the blocks still to arrive
    seen,             \* block ids of the leaders run has read, in order
    sends,            \* what run has passed to sender.try_send, in order
    lpc,              \* position of run in its loop
    lcancel           \* the cancellation signal has been sent

lvars == <<wire, seen, sends, lpc, lcancel>>

\* The device layer: the channels and the conversions of their errors.
VARIABLES
    chan,             \* each channel: is_opened and the claims it holds
    call,             \* the last call of open or close of a channel
    gerr,             \* the gev::Error converted last
    cerr,             \* the kind of ControlError it became
    serr              \* the kind of StreamError it became

chvars == <<chan, call, gerr, cerr, serr>>

\* A call of StreamParams::maximum_payload_size.
VARIABLES
    mcall             \* the StreamParams it is called on and what it returned

pvars == <<mcall>>

\* The iterations of one worker: its payload buffers and what it reports.
VARIABLES
    wk,               \* locals of run: position, payload_buf_opt, payload_buf
    iparams,          \* self.params of the StreamingLoop
    recycle,          \* lengths of the buffers in the recycled-buffer channel
    ilog,             \* this iteration: reads made, items sent, the failure
    tally,            \* the run so far: iterations, allocations, buffers taken
    icancel           \* the cancellation signal has been sent

ivars == <<wk, iparams, recycle, ilog, tally, icancel>>

\* One call of read_payload.
VARIABLES
    rp,               \* its arguments, locals (cursor, read_len) and result
    pool              \* the AsyncPool: slices submitted, transfers polled

rpvars == <<rp, pool>>
xvars == <<pvars, ivars, rpvars>>
dvars == <<bvars, lvars, chvars, xvars>>
vars == <<svars, dvars>>

NoCall == [op |-> "none", res |-> "none", running |-> FALSE, w |-> 0]
Ret(op, res, running, w) == [op |-> op, res |-> res, running |-> running, w |-> w]

\* StreamHandle::new and ReceiveChannel::new
HandleInit ==
    /\ cpc = "ready" /\ cop = "none" /\ cw = 0 /\ last = NoCall
    /\ is_opened = FALSE
    /\ params = DefaultParams
    /\ cancellation_tx = 0 /\ completion_rx = 0
    /\ mutex = NoHolder /\ poisoned = FALSE
    /\ wpc = [w \in Workers |-> "free"]
    /\ wparams = [w \in Workers |-> DefaultParams]
    /\ cancel = [w \in Workers |-> "empty"]
    /\ complete = [w \in Workers |-> "empty"]
    /\ polls = [w \in Workers |-> 0]
    /\ wev = [w \in Workers |-> "none"]
    /\ timeouts = [w \in Workers |-> 0]
    /\ rpc = [r \in Readers |-> "idle"]
    /\ rkind = [r \in Readers |-> "none"]
    /\ rbuf = [r \in Readers |-> 0]
    /\ rpolls = [r \in Readers |-> 0]
    /\ rres = [r \in Readers |-> "none"]

\* The loop of build_image_extended_payload at statement pc: current_offset
\* and the offsets of the size fields it has read.
ChunkWalk(pc, current_offset, reads) ==
    [pc |-> pc, current_offset |-> current_offset, reads |-> reads]
NoWalk == ChunkWalk("idle", 0, <<>>)

BuildIdle == blk = NoBlock /\ bres = NotBuilt /\ cwalk = NoWalk
LoopIdle ==
    /\ wire = <<>> /\ seen = <<>> /\ sends = <<>>
    /\ lpc = "idle" /\ lcancel = FALSE

Channels == {"control", "receive"}
NoError == <<"none", "none">>

\* A channel: is_opened, and how many claims of its interface it holds.
Channel(opened, claimed) == [is_opened |-> opened, claimed |-> claimed]

\* A call of open or close: the channel, is_opened before the call, whether
\* the call reached claim_interface / release_interface, and its result.
ChannelCall(ch, op, was_opened, iface, res) ==
    [ch |-> ch, op |-> op, was_opened |-> was_opened, iface |-> iface, res |-> res]
NoChannelCall == ChannelCall("none", "none", FALSE, FALSE, NoError)

\* ControlChannel::new and ReceiveChannel::new; nothing converted yet.
ChannelIdle ==
    /\ chan = [c \in Channels |-> Channel(FALSE, 0)]
    /\ call = NoChannelCall
    /\ gerr = NoError /\ cerr = "none" /\ serr = "none"

\* maximum_payload_size not called.
NotCalled == [kind |-> "none", v |-> 0]
ParamsCall(p, ret) == [p |-> p, ret |-> ret]
ParamsIdle == mcall = ParamsCall(DefaultParams, NotCalled)

\* Option<Vec<u8>> by the length of the buffer.
None == <<>>
Some(len) == <<len>>

\* Locals of run: src tells where payload_buf of this iteration came from.
Locals(pc, opt, buf, src) ==
    [pc |-> pc, payload_buf_opt |-> opt, payload_buf |-> buf, src |-> src]

\* What an iteration did: the reads it made, the items it passed to
\* sender.try_send, and the stage and error of its failure.
NoFailure == <<"none", "none">>
IterLog(reads, items, fail) == [reads |-> reads, sent |-> items, fail |-> fail]
EmptyLog == IterLog(<<>>, <<>>, NoFailure)

\* Counters of a run: iterations begun, vec![0; maximum_payload_size]
\* allocations, buffers taken from the recycled-buffer channel, buffers the
\* consumer has returned, whether every iteration so far delivered a
\* payload, and what the channel held when the loop started.
Tally(iters, allocs, taken, given, clean, preloaded) ==
    [iters |-> iters, allocs |-> allocs, taken |-> taken, given |-> given,
     clean |-> clean, preloaded |-> preloaded]

IterIdle ==
    /\ wk = Locals("idle", None, None, "none")
    /\ iparams = DefaultParams
    /\ recycle = <<>>
    /\ ilog = EmptyLog
    /\ tally = Tally(0, 0, 0, 0, TRUE, <<>>)
    /\ icancel = FALSE

\* read_payload at statement pc, called with params p and a buffer of
\* buflen bytes; submitted counts the passes of the for loop.
PayloadCall(pc, p, buflen, submitted, cursor, read_len, ret) ==
    [pc |-> pc, p |-> p, buflen |-> buflen, submitted |-> submitted,
     cursor |-> cursor, read_len |-> read_len, ret |-> ret]

\* AsyncPool: the slices submitted (offset and length), the transfers
\* still to complete, and the byte counts poll has reported.
AsyncPool(slices, pending, polled) ==
    [slices |-> slices, pending |-> pending, polled |-> polled]

ReadPayloadIdle ==
    /\ rp = PayloadCall("idle", DefaultParams, 0, 0, 0, 0, <<"none">>)
    /\ pool = AsyncPool(<<>>, 0, <<>>)

ExtraIdle == ParamsIdle /\ IterIdle /\ ReadPayloadIdle

DataIdle == BuildIdle /\ LoopIdle /\ ChannelIdle /\ ExtraIdle

Init == HandleInit /\ DataIdle

is_loop_running == completion_rx # 0

\* A &mut self method can be called: no other call borrows the handle.
Exclusive == cpc = "ready" /\ \A r \in Readers : rpc[r] = "idle"

\* A worker thread has ended: its StreamingLoop, and with it the
\* cancellation receiver, has been dropped.
ReceiverDropped(w) == wpc[w] = "dead"

\* A public &mut method returns res to its caller; drop ends the handle.
Return(op, res, running, w) ==
    /\ last' = Ret(op, res, running, w)
    /\ cpc' = IF op = "drop" THEN "dropped" ELSE "returned"
    /\ cop' = "none"
    /\ cw' = 0

\* Option::take leaves None behind.
take_kept(opt) == opt
take(opt) == 0

\* The error stop_streaming_loop returns when cancellation_tx.send fails.
cancel_send_error == "Poisoned"

\* block_on(completion_rx) returns once the oneshot is resolved.
completion_polled(c) == TRUE
completion_resolved(c) == c # "empty"

\* self.inner.lock() of a read method returns once the Mutex is free.
read_lock_skipped == TRUE
read_lock_granted == mutex = NoHolder

\* map_err of start_streaming_loop: every ControlError of from_control
\* becomes StreamError::Io("failed to setup streaming parameters: ..").
discovery_error_kept(e) == e
discovery_error(e) == "Io"

\* The check start_streaming_loop makes after parameter discovery.
start_never_refused == FALSE
start_refused == is_loop_running

\* The check read_leader, read_payload and read_trailer make first.
read_refused_but_trailer(kind) == kind # "trailer" /\ is_loop_running
read_refused(kind) == is_loop_running

\* cancellation_rx.try_recv().transpose().is_some(): a signal was sent, or
\* the sender was dropped.
cancel_observed_if_dropped(c) == c = "dropped"
cancel_observed(c) == c \in {"sent", "dropped"}

\* gev::LibUsbError
LibUsbErrors ==
    {"Io", "InvalidParam", "Access", "NoDevice", "NotFound", "Busy", "Timeout",
     "Overflow", "Pipe", "Interrupted", "NoMem", "NotSupported", "BadDescriptor",
     "Other"}

LibUsb(kind) == <<"LibUsb", kind>>
BufferIo == <<"BufferIo", "none">>
InvalidPacket == <<"InvalidPacket", "none">>
InvalidDevice == <<"InvalidDevice", "none">>

\* gev::Error
GevErrors ==
    {LibUsb(kind) : kind \in LibUsbErrors} \cup {BufferIo, InvalidPacket, InvalidDevice}

\* Outcomes of claim_interface and release_interface.
IfaceOutcomes == {NoError} \cup {LibUsb(kind) : kind \in LibUsbErrors}

\* The LibUsbError kinds each conversion turns into Io.
ControlIoKinds ==
    {"Io", "InvalidParam", "Access", "Overflow", "Pipe", "Interrupted", "NoMem",
     "NotSupported", "BadDescriptor", "Other"}
StreamIoKindsWithTimeout ==
    {"Io", "InvalidParam", "Access", "Overflow", "Pipe", "Interrupted", "NoMem",
     "NotSupported", "BadDescriptor", "Busy", "Other", "Timeout"}
StreamIoKinds ==
    {"Io", "InvalidParam", "Access", "Overflow", "Pipe", "Interrupted", "NoMem",
     "NotSupported", "BadDescriptor", "Busy", "Other"}

\* impl From<gev::Error> for ControlError: the kind of the ControlError.
control_error_from(err) ==
    IF err[1] = "LibUsb"
    THEN IF err[2] \in ControlIoKinds THEN "Io"
         ELSE IF err[2] = "Busy" THEN "Busy"
         ELSE IF err[2] \in {"NoDevice", "NotFound"} THEN "Disconnected"
         ELSE "Timeout"
    ELSE IF err \in {BufferIo, InvalidPacket} THEN "Io"
    ELSE "InvalidDevice"

\* impl From<gev::Error> for StreamError: the kind of the StreamError.
stream_error_from(err) ==
    IF err[1] = "LibUsb"
    THEN IF err[2] \in StreamIoKinds THEN "Io"
         ELSE IF err[2] \in {"NoDevice", "NotFound"} THEN "Disconnected"
         ELSE "Timeout"
    ELSE "Io"

\* The slot of the thread std::thread::spawn creates.
SpawnSlots ==
    {w \in Workers : wpc[w] \in {"free", "dead"} /\ w # cancellation_tx /\ w # completion_rx}
SpawnSlot == CHOOSE w \in SpawnSlots : \A v \in SpawnSlots : w <= v

(***************************************************************************)
(* The controlling thread: PayloadStream for StreamHandle, and Drop.       *)
(***************************************************************************)

\* start_streaming_loop(sender, ctrl); d is what from_control(ctrl) yields.
StartStreamingLoop(d) ==
    /\ Exclusive
    /\ UNCHANGED dvars
    /\ IF ~d.ok
       THEN /\ Return("start", discovery_error(d.err), is_loop_running, 0)
            /\ UNCHANGED <<hvars, wvars>>
       ELSE /\ params' = d.p
            /\ IF start_refused
               THEN /\ Return("start", "InStreaming", is_loop_running, 0)
                    /\ UNCHANGED <<is_opened, cancellation_tx, completion_rx, wvars>>
               ELSE /\ SpawnSlots # {}
                    /\ LET w == SpawnSlot
                           old == cancellation_tx
                       IN /\ cancellation_tx' = w
                          /\ completion_rx' = w
                          /\ wpc' = [wpc EXCEPT ![w] = "lock"]
                          /\ wparams' = [wparams EXCEPT ![w] = d.p]
                          /\ cancel' = [v \in Workers |->
                                          IF v = w THEN "empty"
                                          ELSE IF v = old /\ cancel[v] = "empty" THEN "dropped"
                                          ELSE cancel[v]]
                          /\ complete' = [complete EXCEPT ![w] = "empty"]
                          /\ polls' = [polls EXCEPT ![w] = 0]
                          /\ wev' = [wev EXCEPT ![w] = "none"]
                          /\ timeouts' = [timeouts EXCEPT ![w] = 0]
                          /\ Return("start", "Ok", is_loop_running, w)
                    /\ UNCHANGED is_opened
    /\ UNCHANGED <<mutex, poisoned, rvars>>

\* let completion_rx = self.completion_rx.take() (line 171) runs before the
\* send on the cancellation sender, so it runs whether or not the send fails.
completion_rx_taken_after_send(send_failed) ==
    IF send_failed THEN completion_rx ELSE take(completion_rx)
completion_rx_taken(send_failed) == take(completion_rx)

\* The body of stop_streaming_loop up to block_on(completion_rx), entered
\* from method op (stop itself, close, or drop through close).
StopBegin(op) ==
    LET w == cancellation_tx IN
    /\ cancellation_tx' = take(cancellation_tx)
    /\ completion_rx' = completion_rx_taken(ReceiverDropped(w))
    /\ IF ReceiverDropped(w)
       THEN \* cancellation_tx.send(()) fails: Err(Poisoned)
            /\ Return(op, cancel_send_error, TRUE, w)
            /\ UNCHANGED cancel
       ELSE /\ cancel' = [cancel EXCEPT ![w] = "sent"]
            /\ cpc' = "stop_wait"
            /\ cop' = op
            /\ cw' = w
            /\ UNCHANGED last
    /\ UNCHANGED <<is_opened, params, mutex, poisoned, wpc, wparams, complete,
                   polls, wev, timeouts, rvars>>

\* stop_streaming_loop()
StopStreamingLoop ==
    /\ Exclusive
    /\ UNCHANGED dvars
    /\ IF is_loop_running
       THEN StopBegin("stop")
       ELSE /\ Return("stop", "Ok", FALSE, 0)
            /\ UNCHANGED <<hvars, mutex, poisoned, wvars, rvars>>

\* block_on(completion_rx) returns: the worker sent the completion, or
\* dropped its completion_tx.
StopWait ==
    /\ cpc = "stop_wait"
    /\ UNCHANGED dvars
    /\ completion_resolved(complete[cw])
    /\ IF complete[cw] = "dropped"
       THEN Return(cop, "Poisoned", TRUE, cw)
       ELSE IF cop = "stop"
       THEN Return("stop", "Ok", TRUE, cw)
       ELSE /\ cpc' = "close_lock"
            /\ UNCHANGED <<cop, cw, last>>
    /\ UNCHANGED <<hvars, mutex, poisoned, wvars, rvars>>

\* close(): stop the loop when it runs, then lock the channel.
Close(op) ==
    /\ Exclusive
    /\ UNCHANGED dvars
    /\ IF is_loop_running
       THEN StopBegin(op)
       ELSE /\ cpc' = "close_lock"
            /\ cop' = op
            /\ cw' = 0
            /\ UNCHANGED <<last, hvars, mutex, poisoned, wvars, rvars>>

\* close() after inner.lock() returned: ReceiveChannel::close, and the
\* map_err(|e| e.into()) of its error.
\* released is the outcome of release_interface.
CloseLocked(released) ==
    /\ cpc = "close_lock"
    /\ UNCHANGED dvars
    /\ mutex = NoHolder
    /\ IF poisoned
       THEN /\ Return(cop, "Poisoned", cw # 0, cw)
            /\ UNCHANGED is_opened
       ELSE IF is_opened /\ released # NoError
       THEN /\ Return(cop, stream_error_from(released), cw # 0, cw)
            /\ UNCHANGED is_opened
       ELSE /\ is_opened' = FALSE
            /\ Return(cop, "Ok", cw # 0, cw)
    /\ UNCHANGED <<params, cancellation_tx, completion_rx, mutex, poisoned,
                   wvars, rvars>>

\* open(): blocks on inner.lock().
Open ==
    /\ Exclusive
    /\ UNCHANGED dvars
    /\ cpc' = "open_lock"
    /\ cop' = "open"
    /\ UNCHANGED <<cw, last, hvars, mutex, poisoned, wvars, rvars>>

\* open() after inner.lock() returned: ReceiveChannel::open, and the
\* map_err(|e| e.into()) of its error.
\* claimed is the outcome of claim_interface.
OpenLocked(claimed) ==
    /\ cpc = "open_lock"
    /\ UNCHANGED dvars
    /\ mutex = NoHolder
    /\ IF poisoned
       THEN /\ Return("open", "Poisoned", is_loop_running, 0)
            /\ UNCHANGED is_opened
       ELSE IF ~is_opened /\ claimed # NoError
       THEN /\ Return("open", stream_error_from(claimed), is_loop_running, 0)
            /\ UNCHANGED is_opened
       ELSE /\ is_opened' = TRUE
            /\ Return("open", "Ok", is_loop_running, 0)
    /\ UNCHANGED <<params, cancellation_tx, completion_rx, mutex, poisoned,
                   wvars, rvars>>

\* The caller goes on after a call returned.
Resume ==
    /\ cpc = "returned"
    /\ UNCHANGED dvars
    /\ cpc' = "ready"
    /\ last' = NoCall
    /\ UNCHANGED <<cop, cw, hvars, mutex, poisoned, wvars, rvars>>

(***************************************************************************)
(* The worker thread: StreamingLoop::run.                                  *)
(***************************************************************************)

\* What recv() does before it touches the channel, for a read of len bytes
\* into a buffer of buflen bytes.
RecvEntry(len, buflen) ==
    IF len = 0 THEN "Ok"
    ELSE IF buflen < len THEN "BufferTooSmall"
    ELSE "recv"

\* Results of Leader::parse / Trailer::parse on the received bytes.
ParseResults == {"Ok", "InvalidPayload"}

\* The leader error arm: is the error sent to the consumer?
leader_error_is_fatal_or_timeout(e) == e \in {"Io", "Disconnected", "Timeout"}
leader_error_is_fatal(e) == e \in {"Io", "Disconnected"}

\* Where the worker goes after an error in the unwrap_or_continue! arm or
\* the leader error arm: continue.
continue_past_check == "leader"
continue_as_break == "complete"
continue_target == "check"

\* The worker counts a timed-out blocking call made after its cancel signal.
CountTimeout(w, e) ==
    IF e = "Timeout" /\ cancel[w] # "empty" /\ timeouts[w] < MaxTimeouts
    THEN [timeouts EXCEPT ![w] = @ + 1]
    ELSE timeouts

\* let mut inner = self.inner.lock().unwrap();
WorkerLock(w) ==
    /\ wpc[w] = "lock"
    /\ UNCHANGED dvars
    /\ mutex = NoHolder
    /\ IF poisoned
       THEN \* unwrap panics: the thread ends, both oneshot ends are dropped
            /\ wpc' = [wpc EXCEPT ![w] = "dead"]
            /\ complete' = [complete EXCEPT ![w] = "dropped"]
            /\ wparams' = [wparams EXCEPT ![w] = DefaultParams]
            /\ UNCHANGED mutex
       ELSE /\ mutex' = <<"w", w>>
            /\ wpc' = [wpc EXCEPT ![w] = "check"]
            /\ UNCHANGED <<complete, wparams>>
    /\ UNCHANGED <<cvars, hvars, poisoned, cancel, polls, wev, timeouts, rvars>>

\* Top of the loop: the cancellation check, then the payload buffer.
WorkerCheck(w) ==
    /\ wpc[w] = "check"
    /\ UNCHANGED dvars
    /\ wpc' = [wpc EXCEPT ![w] = IF cancel_observed(cancel[w]) THEN "complete" ELSE "leader"]
    /\ wev' = [wev EXCEPT ![w] = "none"]
    /\ UNCHANGED <<cvars, hvars, mutex, poisoned, wparams, cancel, complete, polls,
                   timeouts, rvars>>

\* The leader error arm (lines 261-269).
LeaderFailed(w, e) ==
    /\ wpc' = [wpc EXCEPT ![w] = continue_target]
    /\ wev' = [wev EXCEPT ![w] = IF leader_error_is_fatal(e) THEN "leader_sent" ELSE "leader_skipped"]
    /\ timeouts' = CountTimeout(w, e)

\* unwrap_or_continue!(result, payload_buf) on Err(e).
UnwrapFailed(w, ev, e) ==
    /\ wpc' = [wpc EXCEPT ![w] = continue_target]
    /\ wev' = [wev EXCEPT ![w] = ev]
    /\ timeouts' = CountTimeout(w, e)

\* Lengths of the scratch buffers run hands to its reads: read_leader gets
\* trailer_buf (vec![0; trailer_size]), read_trailer gets leader_buf
\* (vec![0; leader_size]).
leader_read_buf_len(p) == p.trailer_size
trailer_read_buf_len(p) == p.leader_size

\* self.params of a StreamingLoop: the clone of the handle's params made when
\* the loop was started, owned by the thread.
worker_params_shared(w) == params
worker_params(w) == wparams[w]

\* read_leader(&mut inner, &self.params, &mut trailer_buf) up to the receive.
WorkerLeader(w, parsed) ==
    /\ wpc[w] = "leader"
    /\ UNCHANGED dvars
    /\ LET entry == RecvEntry(worker_params(w).leader_size, leader_read_buf_len(worker_params(w))) IN
       IF entry = "recv"
       THEN /\ wpc' = [wpc EXCEPT ![w] = "leader_rx"]
            /\ UNCHANGED <<wev, timeouts>>
       ELSE IF entry = "Ok" /\ parsed = "Ok"
       THEN /\ wpc' = [wpc EXCEPT ![w] = "payload"]
            /\ UNCHANGED <<wev, timeouts>>
       ELSE LeaderFailed(w, IF entry = "Ok" THEN parsed ELSE entry)
    /\ UNCHANGED <<cvars, hvars, mutex, poisoned, wparams, cancel, complete, polls, rvars>>

\* inner.recv(&mut buf[..len], timeout) returns, then Leader::parse.
WorkerLeaderRecv(w, out) ==
    /\ wpc[w] = "leader_rx"
    /\ UNCHANGED dvars
    /\ IF out = "Ok"
       THEN /\ wpc' = [wpc EXCEPT ![w] = "payload"]
            /\ UNCHANGED <<wev, timeouts>>
       ELSE LeaderFailed(w, out)
    /\ UNCHANGED <<cvars, hvars, mutex, poisoned, wparams, cancel, complete, polls, rvars>>

\* read_payload: the submits.  submitted is the outcome of the submits.
WorkerPayload(w, submitted) ==
    /\ wpc[w] = "payload"
    /\ UNCHANGED dvars
    /\ IF SubmitCount(worker_params(w)) = 0
       THEN /\ wpc' = [wpc EXCEPT ![w] = "trailer"]
            /\ UNCHANGED <<polls, wev, timeouts>>
       ELSE IF submitted = "Ok"
       THEN /\ wpc' = [wpc EXCEPT ![w] = "payload_poll"]
            /\ polls' = [polls EXCEPT ![w] = SubmitCount(worker_params(w))]
            /\ UNCHANGED <<wev, timeouts>>
       ELSE /\ UnwrapFailed(w, "payload_err", submitted)
            /\ UNCHANGED polls
    /\ UNCHANGED <<cvars, hvars, mutex, poisoned, wparams, cancel, complete, rvars>>

\* read_payload: one async_pool.poll(timeout) returns.
WorkerPoll(w, out) ==
    /\ wpc[w] = "payload_poll"
    /\ UNCHANGED dvars
    /\ IF out = "Ok"
       THEN /\ polls' = [polls EXCEPT ![w] = @ - 1]
            /\ wpc' = [wpc EXCEPT ![w] = IF polls[w] = 1 THEN "trailer" ELSE "payload_poll"]
            /\ UNCHANGED <<wev, timeouts>>
       ELSE /\ UnwrapFailed(w, "payload_err", out)
            /\ polls' = [polls EXCEPT ![w] = 0]
    /\ UNCHANGED <<cvars, hvars, mutex, poisoned, wparams, cancel, complete, rvars>>

\* read_trailer(&mut inner, &self.params, &mut leader_buf) up to the receive.
WorkerTrailer(w, parsed) ==
    /\ wpc[w] = "trailer"
    /\ UNCHANGED dvars
    /\ LET entry == RecvEntry(worker_params(w).trailer_size, trailer_read_buf_len(worker_params(w))) IN
       IF entry = "recv"
       THEN /\ wpc' = [wpc EXCEPT ![w] = "trailer_rx"]
            /\ UNCHANGED <<wev, timeouts>>
       ELSE IF entry = "Ok" /\ parsed = "Ok"
       THEN /\ wpc' = [wpc EXCEPT ![w] = "build"]
            /\ UNCHANGED <<wev, timeouts>>
       ELSE UnwrapFailed(w, "trailer_err", IF entry = "Ok" THEN parsed ELSE entry)
    /\ UNCHANGED <<cvars, hvars, mutex, poisoned, wparams, cancel, complete, polls, rvars>>

\* inner.recv(&mut buf[..len], timeout) returns, then Trailer::parse.
WorkerTrailerRecv(w, out) ==
    /\ wpc[w] = "trailer_rx"
    /\ UNCHANGED dvars
    /\ IF out = "Ok"
       THEN /\ wpc' = [wpc EXCEPT ![w] = "build"]
            /\ UNCHANGED <<wev, timeouts>>
       ELSE UnwrapFailed(w, "trailer_err", out)
    /\ UNCHANGED <<cvars, hvars, mutex, poisoned, wparams, cancel, complete, polls, rvars>>

\* PayloadBuilder::build, then sender.try_send(Ok(payload)).
\* built: result of build; sent: result of try_send.
WorkerBuild(w, built, sent) ==
    /\ wpc[w] = "build"
    /\ UNCHANGED dvars
    /\ IF built = "Ok"
       THEN /\ wpc' = [wpc EXCEPT ![w] = "check"]
            /\ wev' = [wev EXCEPT ![w] = sent]
            /\ UNCHANGED timeouts
       ELSE UnwrapFailed(w, "build_err", built)
    /\ UNCHANGED <<cvars, hvars, mutex, poisoned, wparams, cancel, complete, polls, rvars>>

\* After the loop: completion_tx.send(()).
WorkerComplete(w) ==
    /\ wpc[w] = "complete"
    /\ UNCHANGED dvars
    /\ complete' = [complete EXCEPT ![w] = "sent"]
    /\ wpc' = [wpc EXCEPT ![w] = "unlock"]
    /\ UNCHANGED <<cvars, hvars, mutex, poisoned, wparams, cancel, polls, wev,
                   timeouts, rvars>>

\* End of run: the locals are dropped first, the MutexGuard inner among
\* them.  The StreamingLoop (self) is still alive.
WorkerUnlock(w) ==
    /\ wpc[w] = "unlock"
    /\ UNCHANGED dvars
    /\ mutex' = NoHolder
    /\ wpc' = [wpc EXCEPT ![w] = "drop"]
    /\ UNCHANGED <<cvars, hvars, poisoned, wparams, cancel, complete, polls, wev,
                   timeouts, rvars>>

\* run returns: self is dropped (params, sender, cancellation_rx) and the
\* thread ends.
WorkerReturn(w) ==
    /\ wpc[w] = "drop"
    /\ UNCHANGED dvars
    /\ wpc' = [wpc EXCEPT ![w] = "dead"]
    /\ wparams' = [wparams EXCEPT ![w] = DefaultParams]
    /\ timeouts' = [timeouts EXCEPT ![w] = 0]
    /\ UNCHANGED <<cvars, hvars, mutex, poisoned, cancel, complete, polls, wev, rvars>>

(***************************************************************************)
(* Reader threads: StreamHandle::read_leader / read_payload / read_trailer *)
(***************************************************************************)

ReadKinds == {"leader", "payload", "trailer"}

\* A read call is over with result res.
ReadDone(r, res) ==
    /\ rpc' = [rpc EXCEPT ![r] = "done"]
    /\ rres' = [rres EXCEPT ![r] = res]
    /\ rbuf' = [rbuf EXCEPT ![r] = 0]

\* The call, up to inner.lock().
ReadCall(r, kind, buflen) ==
    /\ cpc = "ready"
    /\ UNCHANGED dvars
    /\ rpc[r] = "idle"
    /\ rkind' = [rkind EXCEPT ![r] = kind]
    /\ IF read_refused(kind)
       THEN ReadDone(r, "InStreaming")
       ELSE /\ rpc' = [rpc EXCEPT ![r] = "lock"]
            /\ rres' = [rres EXCEPT ![r] = "none"]
            /\ rbuf' = [rbuf EXCEPT ![r] = buflen]
    /\ UNCHANGED <<cvars, hvars, mutex, poisoned, wvars, rpolls>>

\* inner.lock() returned; the free function runs up to its first receive.
\* parsed: result of the parse of a zero-length read; submitted: outcome of
\* the submits of read_payload.
ReadLocked(r, parsed, submitted) ==
    /\ rpc[r] = "lock"
    /\ UNCHANGED dvars
    /\ read_lock_granted
    /\ IF poisoned
       THEN /\ ReadDone(r, "Poisoned")
            /\ UNCHANGED <<mutex, poisoned, rpolls>>
       ELSE IF rkind[r] = "payload"
       THEN LET fit == FittingSlices(params, rbuf[r]) IN
            IF submitted # "Ok" /\ fit >= 1
            THEN /\ ReadDone(r, submitted)
                 /\ UNCHANGED <<mutex, poisoned, rpolls>>
            ELSE IF fit < SubmitCount(params)
            THEN \* the slice is out of range: panic while the guard is held
                 /\ ReadDone(r, "panic")
                 /\ poisoned' = TRUE
                 /\ UNCHANGED <<mutex, rpolls>>
            ELSE IF SubmitCount(params) = 0
            THEN /\ ReadDone(r, "Ok")
                 /\ UNCHANGED <<mutex, poisoned, rpolls>>
            ELSE /\ rpc' = [rpc EXCEPT ![r] = "recv"]
                 /\ rpolls' = [rpolls EXCEPT ![r] = SubmitCount(params)]
                 /\ mutex' = <<"r", r>>
                 /\ UNCHANGED <<poisoned, rres>>
                 /\ rbuf' = [rbuf EXCEPT ![r] = 0]
       ELSE LET len == IF rkind[r] = "leader" THEN params.leader_size
                       ELSE params.trailer_size
                entry == RecvEntry(len, rbuf[r])
            IN IF entry = "recv"
               THEN /\ rpc' = [rpc EXCEPT ![r] = "recv"]
                    /\ mutex' = <<"r", r>>
                    /\ rbuf' = [rbuf EXCEPT ![r] = 0]
                    /\ UNCHANGED <<poisoned, rres, rpolls>>
               ELSE /\ ReadDone(r, IF entry = "Ok" THEN parsed ELSE entry)
                    /\ UNCHANGED <<mutex, poisoned, rpolls>>
    /\ UNCHANGED <<cvars, hvars, wvars, rkind>>

\* A blocking receive of the reader returns: inner.recv for a leader or a
\* trailer (then the parse), one async_pool.poll for a payload.
ReadRecv(r, out) ==
    /\ rpc[r] = "recv"
    /\ UNCHANGED dvars
    /\ IF rkind[r] = "payload" /\ out = "Ok" /\ rpolls[r] > 1
       THEN /\ rpolls' = [rpolls EXCEPT ![r] = @ - 1]
            /\ UNCHANGED <<mutex, rpc, rres, rbuf>>
       ELSE /\ rkind[r] = "payload" => out # "InvalidPayload"
            /\ ReadDone(r, out)
            /\ rpolls' = [rpolls EXCEPT ![r] = 0]
            /\ mutex' = NoHolder
    /\ UNCHANGED <<cvars, hvars, poisoned, wvars, rkind>>

\* The call returns to its caller.
ReadReturn(r) ==
    /\ rpc[r] = "done"
    /\ UNCHANGED dvars
    /\ rpc' = [rpc EXCEPT ![r] = "idle"]
    /\ rkind' = [rkind EXCEPT ![r] = "none"]
    /\ rres' = [rres EXCEPT ![r] = "none"]
    /\ UNCHANGED <<cvars, hvars, mutex, poisoned, wvars, rbuf, rpolls>>

RecvOutcomes == {"Ok", "InvalidPayload"} \cup TransportErrors
PollOutcomes == {"Ok"} \cup TransportErrors
\* What async_pool.submit(..)? yields: Ok, or the StreamError of its gev::Error.
SubmitOutcomes == {"Ok"} \cup TransportErrors
BuildResults == {"Ok", "InvalidPayload"}
SendResults == {"send_ok", "send_full", "send_closed"}

Next ==
    \/ \E d \in DiscoverOutcomes : StartStreamingLoop(d)
    \/ StopStreamingLoop
    \/ StopWait
    \/ Close("close")
    \/ Close("drop")
    \/ \E released \in IfaceOutcomes : CloseLocked(released)
    \/ Open
    \/ \E claimed \in IfaceOutcomes : OpenLocked(claimed)
    \/ Resume
    \/ \E w \in Workers :
          \/ WorkerLock(w)
          \/ WorkerCheck(w)
          \/ \E parsed \in ParseResults : WorkerLeader(w, parsed)
          \/ \E out \in RecvOutcomes : WorkerLeaderRecv(w, out)
          \/ \E submitted \in SubmitOutcomes : WorkerPayload(w, submitted)
          \/ \E out \in PollOutcomes : WorkerPoll(w, out)
          \/ \E parsed \in ParseResults : WorkerTrailer(w, parsed)
          \/ \E out \in RecvOutcomes : WorkerTrailerRecv(w, out)
          \/ \E built \in BuildResults, sent \in SendResults : WorkerBuild(w, built, sent)
          \/ WorkerComplete(w)
          \/ WorkerUnlock(w)
          \/ WorkerReturn(w)
    \/ \E r \in Readers :
          \/ \E kind \in ReadKinds, buflen \in 0..MaxBuf : ReadCall(r, kind, buflen)
          \/ \E parsed \in ParseResults, submitted \in SubmitOutcomes : ReadLocked(r, parsed, submitted)
          \/ \E out \in RecvOutcomes : ReadRecv(r, out)
          \/ ReadReturn(r)

Spec == Init /\ [][Next]_vars

\* A step of a worker thread.
WorkerRuns ==
    \E w \in Workers :
       \/ WorkerLock(w)
       \/ WorkerCheck(w)
       \/ \E parsed \in ParseResults : WorkerLeader(w, parsed)
       \/ \E out \in RecvOutcomes : WorkerLeaderRecv(w, out)
       \/ \E submitted \in SubmitOutcomes : WorkerPayload(w, submitted)
       \/ \E out \in PollOutcomes : WorkerPoll(w, out)
       \/ \E parsed \in ParseResults : WorkerTrailer(w, parsed)
       \/ \E out \in RecvOutcomes : WorkerTrailerRecv(w, out)
       \/ \E built \in BuildResults, sent \in SendResults : WorkerBuild(w, built, sent)
       \/ WorkerComplete(w)
       \/ WorkerUnlock(w)
       \/ WorkerReturn(w)

\* SpecLive: Spec with the scheduling of the threads.  A spawned worker
\* keeps running (every blocking call of it is bounded by the timeout), and
\* a call of the controlling thread that is blocked on the lock or on the
\* completion goes on once it can.  Which calls are made, and when, is up
\* to the caller.
SpecLive ==
    /\ Init /\ [][Next]_vars
    /\ WF_vars(WorkerRuns)
    /\ WF_vars(\E claimed \in IfaceOutcomes : OpenLocked(claimed))
    /\ WF_vars(\E released \in IfaceOutcomes : CloseLocked(released))
    /\ WF_vars(StopWait)

(***************************************************************************)
(* SpecMut: the handle and its workers, with params_mut.  The caller of    *)
(* params_mut writes the fields through the &mut it returns.               *)
(***************************************************************************)

\* The values a caller stores through params_mut.
MutParams == DiscoverableParams \cup {DefaultParams}

\* params_mut(&mut self) -> &mut StreamParams, and the store through it.
ParamsMut(p) ==
    /\ Exclusive
    /\ UNCHANGED dvars
    /\ params' = p
    /\ p # params
    /\ UNCHANGED <<cvars, is_opened, cancellation_tx, completion_rx,
                   mutex, poisoned, wvars, rvars>>

MutNext ==
    \/ \E d \in DiscoverOutcomes : StartStreamingLoop(d)
    \/ \E p \in MutParams : ParamsMut(p)
    \/ StopStreamingLoop
    \/ StopWait
    \/ Close("close")
    \/ Close("drop")
    \/ \E released \in IfaceOutcomes : CloseLocked(released)
    \/ Open
    \/ \E claimed \in IfaceOutcomes : OpenLocked(claimed)
    \/ Resume
    \/ \E w \in Workers :
          \/ WorkerLock(w)
          \/ WorkerCheck(w)
          \/ \E parsed \in ParseResults : WorkerLeader(w, parsed)
          \/ \E out \in RecvOutcomes : WorkerLeaderRecv(w, out)
          \/ \E submitted \in SubmitOutcomes : WorkerPayload(w, submitted)
          \/ \E out \in PollOutcomes : WorkerPoll(w, out)
          \/ \E parsed \in ParseResults : WorkerTrailer(w, parsed)
          \/ \E out \in RecvOutcomes : WorkerTrailerRecv(w, out)
          \/ \E built \in BuildResults, sent \in SendResults : WorkerBuild(w, built, sent)
          \/ WorkerComplete(w)
          \/ WorkerUnlock(w)
          \/ WorkerReturn(w)

SpecMut == Init /\ [][MutNext]_vars

(***************************************************************************)
(* Specification of the payload builder alone: any block the loop can hand *)
(* to PayloadBuilder::build, and the one step that builds it.              *)
(***************************************************************************)

BuildInit ==
    /\ HandleInit
    /\ blk \in PlainBlocks \cup ChunkBlocks
    /\ bres = NotBuilt /\ cwalk = NoWalk
    /\ LoopIdle /\ ChannelIdle /\ ExtraIdle

\* StreamingLoop::run builds the payload of the block it has read.
Build ==
    /\ blk # NoBlock
    /\ bres = NotBuilt
    /\ bres' = build(blk)
    /\ UNCHANGED <<svars, xvars, blk, cwalk, lvars, chvars>>

BuildNext == Build

SpecBuild == BuildInit /\ [][BuildNext]_vars

(***************************************************************************)
(* SpecWalk: PayloadBuilder::build on an ImageExtendedChunk block, with    *)
(* the loop of build_image_extended_payload taken one iteration at a time. *)
(***************************************************************************)

\* Well-formed ImageExtendedChunk blocks of every valid and read size over
\* the payload buffers with at most one byte that is not zero.
WalkBlocks ==
    { Block("Success", valid, read, "ImageExtendedChunk", TRUE, TRUE, 1,
            [i \in 1..BufLen |-> IF i = p1 THEN v1 ELSE 0]) :
        valid \in 0..BufLen, read \in 0..BufLen, p1 \in 1..BufLen, v1 \in 0..MaxByte }

WalkInit ==
    /\ HandleInit
    /\ blk \in WalkBlocks
    /\ bres = NotBuilt /\ cwalk = ChunkWalk("build", 0, <<>>)
    /\ LoopIdle /\ ChannelIdle /\ ExtraIdle

\* build up to the loop: the status and size checks, the specific leader
\* and trailer, let mut current_offset = valid_payload_size.
WalkBegin ==
    /\ cwalk.pc = "build"
    /\ IF blk.payload_status # "Success" \/ payload_is_short(blk)
       THEN /\ bres' = build(blk)
            /\ cwalk' = ChunkWalk("done", 0, <<>>)
       ELSE /\ cwalk' = ChunkWalk("loop", blk.valid_payload_size, <<>>)
            /\ UNCHANGED bres
    /\ UNCHANGED <<svars, xvars, blk, lvars, chvars>>

\* One iteration of the loop: the size field, the record before it, the
\* break at offset 0.  Indexing payload_buf outside its length panics.
WalkStep ==
    /\ cwalk.pc = "loop"
    /\ LET size_at == checked_sub(cwalk.current_offset, CHUNK_SIZE_LEN) IN
       IF size_at = -1
       THEN /\ bres' = InvalidPayload("size field missing")
            /\ cwalk' = [cwalk EXCEPT !.pc = "done"]
       ELSE IF size_at + CHUNK_SIZE_LEN > Len(blk.payload_buf)
       THEN /\ bres' = [NotBuilt EXCEPT !.kind = "panic"]
            /\ cwalk' = ChunkWalk("done", size_at, cwalk.reads)
       ELSE LET data_size == from_be_bytes(blk.payload_buf, size_at)
                next_offset == checked_sub(size_at, data_size + CHUNK_ID_LEN)
                reads == Append(cwalk.reads, size_at)
            IN IF next_offset = -1
               THEN /\ bres' = InvalidPayload("chunk data size is smaller than specified size")
                    /\ cwalk' = ChunkWalk("done", size_at, reads)
               ELSE IF next_offset = 0
               THEN /\ bres' = Payload(blk.block_id, "ImageExtendedChunk", TRUE,
                                       data_size, blk.valid_payload_size)
                    /\ cwalk' = ChunkWalk("done", 0, reads)
               ELSE /\ cwalk' = ChunkWalk("loop", next_offset, reads)
                    /\ UNCHANGED bres
    /\ UNCHANGED <<svars, xvars, blk, lvars, chvars>>

WalkNext == WalkBegin \/ WalkStep

SpecWalk == WalkInit /\ [][WalkNext]_vars

(***************************************************************************)
(* Specification of one streaming session seen from the wire: the blocks   *)
(* that arrive, the leaders StreamingLoop::run has read, and what it has   *)
(* passed to sender.try_send, in the order of the calls.                   *)
(***************************************************************************)

\* Most blocks that arrive in a session.
MaxBlocks == 3
\* Most try_send calls of a session.
MaxSends == 4

\* The block ids of the blocks of a session; they need not increase.
Wires == UNION { [1..n -> BlockIds] : n \in 0..MaxBlocks }

\* What run passes to try_send: Ok(payload) with the payload's id, or an
\* Err.  leaders: how many leaders run had read when it sent; of_block: the
\* item is the outcome of the block of the last of them.
Sent(leaders, of_block, kind, id) ==
    [leaders |-> leaders, of_block |-> of_block, kind |-> kind, id |-> id]

LoopInit ==
    /\ HandleInit /\ BuildIdle /\ ChannelIdle /\ ExtraIdle
    /\ wire \in Wires
    /\ seen = <<>> /\ sends = <<>>
    /\ lpc = "check" /\ lcancel = FALSE

\* id: self.leader.block_id(), of the leader read in this iteration.
first_leader_block_id == seen[1]
leader_block_id == seen[Len(seen)]

\* sender.try_send(item)
try_send(item) ==
    /\ Len(sends) < MaxSends
    /\ sends' = Append(sends, item)

\* An error arm: send Err(e) if send is true, then continue.
LoopFailed(send, of_block, leaders) ==
    /\ IF send THEN try_send(Sent(leaders, of_block, "Err", 0))
       ELSE UNCHANGED sends
    /\ lpc' = continue_target

\* stop_streaming_loop sends the cancellation signal.
LoopCancel ==
    /\ lpc \in {"check", "leader", "payload", "trailer", "build"}
    /\ ~lcancel
    /\ lcancel' = TRUE
    /\ UNCHANGED <<svars, xvars, bvars, chvars, wire, seen, sends, lpc>>

\* The cancellation check at the top of the loop.
LoopCheck ==
    /\ lpc = "check"
    /\ lpc' = IF lcancel THEN "done" ELSE "leader"
    /\ UNCHANGED <<svars, xvars, bvars, chvars, wire, seen, sends, lcancel>>

\* read_leader: the receive fails (nothing is taken from the wire), or the
\* leader of the next block is received and parsed.
LoopLeader(res) ==
    /\ lpc = "leader"
    /\ IF res \in {"Ok", "InvalidPayload"}
       THEN /\ wire # <<>>
            /\ wire' = Tail(wire)
            /\ seen' = Append(seen, Head(wire))
            /\ IF res = "Ok"
               THEN lpc' = "payload" /\ UNCHANGED sends
               ELSE LoopFailed(leader_error_is_fatal(res), TRUE, Len(seen) + 1)
       ELSE /\ LoopFailed(leader_error_is_fatal(res), FALSE, Len(seen))
            /\ UNCHANGED <<wire, seen>>
    /\ UNCHANGED <<svars, xvars, bvars, chvars, lcancel>>

\* read_payload
LoopPayload(res) ==
    /\ lpc = "payload"
    /\ IF res = "Ok"
       THEN lpc' = "trailer" /\ UNCHANGED sends
       ELSE LoopFailed(TRUE, TRUE, Len(seen))
    /\ UNCHANGED <<svars, xvars, bvars, chvars, wire, seen, lcancel>>

\* read_trailer
LoopTrailer(res) ==
    /\ lpc = "trailer"
    /\ IF res = "Ok"
       THEN lpc' = "build" /\ UNCHANGED sends
       ELSE LoopFailed(TRUE, TRUE, Len(seen))
    /\ UNCHANGED <<svars, xvars, bvars, chvars, wire, seen, lcancel>>

\* PayloadBuilder::build, then try_send(Ok(payload)).
LoopBuild(built) ==
    /\ lpc = "build"
    /\ IF built = "Ok"
       THEN /\ try_send(Sent(Len(seen), TRUE, "Ok", leader_block_id))
            /\ lpc' = "check"
       ELSE LoopFailed(TRUE, TRUE, Len(seen))
    /\ UNCHANGED <<svars, xvars, bvars, chvars, wire, seen, lcancel>>

LoopNext ==
    \/ LoopCancel
    \/ LoopCheck
    \/ \E res \in RecvOutcomes \cup {"BufferTooSmall"} : LoopLeader(res)
    \/ \E res \in {"Ok"} \cup TransportErrors : LoopPayload(res)
    \/ \E res \in RecvOutcomes \cup {"BufferTooSmall"} : LoopTrailer(res)
    \/ \E built \in BuildResults : LoopBuild(built)

SpecLoop == LoopInit /\ [][LoopNext]_vars

(***************************************************************************)
(* Specification of the device layer under the handles: the two channels   *)
(* of device/src/gige/channel.rs with their interface claims, and the      *)
(* conversions of a gev::Error into the error of each plane                *)
(* (cameleon/src/gige/mod.rs).                                             *)
(***************************************************************************)

\* open: if !self.is_opened() { claim_interface(..)?; ... }
open_claims_always(c) == TRUE
open_claims(c) == ~c.is_opened

\* ControlChannel::open and ReceiveChannel::open
channel_open(c, claim) ==
    IF open_claims(c)
    THEN IF claim = NoError THEN Channel(TRUE, c.claimed + 1) ELSE c
    ELSE c

\* ControlChannel::close
control_close(c, release) ==
    IF c.is_opened
    THEN IF release = NoError THEN Channel(FALSE, c.claimed - 1) ELSE c
    ELSE c

\* ReceiveChannel::close
receive_close(c, release) ==
    IF c.is_opened /\ release # NoError THEN c
    ELSE Channel(FALSE, IF c.is_opened THEN c.claimed - 1 ELSE c.claimed)

ChannelInit ==
    /\ HandleInit /\ BuildIdle /\ LoopIdle /\ ExtraIdle
    /\ ChannelIdle

ChannelOpen(ch, claim) ==
    /\ chan' = [chan EXCEPT ![ch] = channel_open(chan[ch], claim)]
    /\ call' = ChannelCall(ch, "open", chan[ch].is_opened, open_claims(chan[ch]),
                           IF open_claims(chan[ch]) THEN claim ELSE NoError)
    /\ UNCHANGED <<svars, xvars, bvars, lvars, gerr, cerr, serr>>

ChannelClose(ch, release) ==
    /\ chan' = [chan EXCEPT ![ch] = IF ch = "control"
                                    THEN control_close(chan[ch], release)
                                    ELSE receive_close(chan[ch], release)]
    /\ call' = ChannelCall(ch, "close", chan[ch].is_opened, chan[ch].is_opened,
                           IF chan[ch].is_opened THEN release ELSE NoError)
    /\ UNCHANGED <<svars, xvars, bvars, lvars, gerr, cerr, serr>>

\* A gev::Error reaches the handles and is converted with into().
Convert(err) ==
    /\ gerr' = err
    /\ cerr' = control_error_from(err)
    /\ serr' = stream_error_from(err)
    /\ UNCHANGED <<svars, xvars, bvars, lvars, chan, call>>

ChannelNext ==
    \/ \E ch \in Channels, claim \in IfaceOutcomes : ChannelOpen(ch, claim)
    \/ \E ch \in Channels, release \in IfaceOutcomes : ChannelClose(ch, release)
    \/ \E err \in GevErrors : Convert(err)

SpecChannel == ChannelInit /\ [][ChannelNext]_vars

(***************************************************************************)
(* SpecParams: StreamParams::maximum_payload_size on machine words.  The   *)
(* fields are pub and StreamParams::new takes any usize.                   *)
(***************************************************************************)

ParamsInit ==
    /\ HandleInit /\ BuildIdle /\ LoopIdle /\ ChannelIdle /\ IterIdle
    /\ ReadPayloadIdle
    /\ mcall \in {ParamsCall(p, NotCalled) : p \in WordParams}

\* p.maximum_payload_size(), in a build with or without overflow checks.
MaximumPayloadSize(overflow_checks) ==
    /\ mcall.ret = NotCalled
    /\ mcall' = ParamsCall(mcall.p, maximum_payload_size_usize(mcall.p, overflow_checks))
    /\ UNCHANGED <<svars, bvars, lvars, chvars, ivars, rpvars>>

ParamsNext == \E overflow_checks \in BOOLEAN : MaximumPayloadSize(overflow_checks)

SpecParams == ParamsInit /\ [][ParamsNext]_vars

(***************************************************************************)
(* SpecIter: the iterations of StreamingLoop::run with their payload       *)
(* buffers: payload_buf_opt, the recycled-buffer channel, the allocations, *)
(* and what each iteration passes to sender.try_send.                      *)
(***************************************************************************)

\* Lengths of the buffers a consumer returns, or has returned before the
\* loop starts.
RecycledLens == 0 .. MaxBuf

\* self.sender.try_recv() is Ok(payload): a buffer waits in the channel.
try_recv_never_ok(q) == FALSE
try_recv_ok(q) == q # <<>>

\* if payload.payload.len() != maximum_payload_size { resize(..) }
needs_resize_if_shorter(len, max) == len < max
needs_resize(len, max) == len # max
recycled_buf(len, max) == IF needs_resize(len, max) THEN max ELSE len

\* The second argument of unwrap_or_continue!, and the leader error arm:
\* Some(payload_buf) for the reads, None for the build.
retained_always(stage, buf) == buf
retained(stage, buf) == IF stage = "build" THEN None ELSE buf

\* unwrap_or_continue!: self.sender.try_send(Err(e)).ok() for every e.
unwrap_error_is_sent_if_fatal(e) == leader_error_is_fatal(e)
unwrap_error_is_sent(e) == TRUE

\* Is the error of a failed stage passed to try_send?
error_is_sent(stage, e) ==
    IF stage = "leader" THEN leader_error_is_fatal(e) ELSE unwrap_error_is_sent(e)

\* What read_leader / read_trailer can return for a read of len bytes into
\* a scratch buffer of buflen bytes.
ReadOutcomes(len, buflen) ==
    IF RecvEntry(len, buflen) = "BufferTooSmall" THEN {"BufferTooSmall"}
    ELSE IF RecvEntry(len, buflen) = "Ok" THEN ParseResults
    ELSE RecvOutcomes

IterInit ==
    /\ HandleInit /\ BuildIdle /\ LoopIdle /\ ChannelIdle /\ ParamsIdle
    /\ ReadPayloadIdle
    /\ wk = Locals("check", None, None, "none")
    /\ iparams \in DiscoverableParams
    /\ recycle \in {<<>>} \cup {<<n>> : n \in RecycledLens}
    /\ ilog = EmptyLog
    /\ tally = Tally(0, 0, 0, 0, TRUE, recycle)
    /\ icancel = FALSE

\* An error arm: the buffer is kept or dropped, the error sent or not, continue.
IterFailed(stage, e) ==
    /\ wk' = Locals(continue_target, retained(stage, wk.payload_buf), None, wk.src)
    /\ ilog' = IterLog(Append(ilog.reads, stage),
                       IF error_is_sent(stage, e)
                       THEN Append(ilog.sent, <<"Err", e>>) ELSE ilog.sent,
                       <<stage, e>>)
    /\ tally' = [tally EXCEPT !.clean = FALSE]

\* A stage succeeded: on to the next one.
IterPassed(stage, to) ==
    /\ wk' = [wk EXCEPT !.pc = to]
    /\ ilog' = [ilog EXCEPT !.reads = Append(@, stage)]
    /\ UNCHANGED tally

\* The top of the loop: the cancellation check, then the payload buffer of
\* the iteration (lines 239-257).
IterCheck ==
    /\ wk.pc = "check"
    /\ IF icancel
       THEN /\ wk' = [wk EXCEPT !.pc = "done"]
            /\ ilog' = EmptyLog
            /\ UNCHANGED <<recycle, tally>>
       ELSE /\ tally.iters < MaxIters
            /\ ilog' = EmptyLog
            /\ LET max == maximum_payload_size(iparams) IN
               IF wk.payload_buf_opt # None
               THEN /\ wk' = Locals("leader", None, wk.payload_buf_opt, "retained")
                    /\ tally' = [tally EXCEPT !.iters = @ + 1]
                    /\ UNCHANGED recycle
               ELSE IF try_recv_ok(recycle)
               THEN /\ wk' = Locals("leader", None,
                                    Some(recycled_buf(Head(recycle), max)), "recycled")
                    /\ recycle' = Tail(recycle)
                    /\ tally' = [tally EXCEPT !.iters = @ + 1, !.taken = @ + 1]
               ELSE /\ wk' = Locals("leader", None, Some(max), "fresh")
                    /\ tally' = [tally EXCEPT !.iters = @ + 1, !.allocs = @ + 1]
                    /\ UNCHANGED recycle
    /\ UNCHANGED <<svars, bvars, lvars, chvars, pvars, rpvars, iparams, icancel>>

\* read_leader returns res.
IterLeader(res) ==
    /\ wk.pc = "leader"
    /\ res \in ReadOutcomes(iparams.leader_size, leader_read_buf_len(iparams))
    /\ IF res = "Ok" THEN IterPassed("leader", "payload") ELSE IterFailed("leader", res)
    /\ UNCHANGED <<svars, bvars, lvars, chvars, pvars, rpvars, iparams, recycle, icancel>>

\* read_payload returns res.
IterPayload(res) ==
    /\ wk.pc = "payload"
    /\ IF res = "Ok" THEN IterPassed("payload", "trailer") ELSE IterFailed("payload", res)
    /\ UNCHANGED <<svars, bvars, lvars, chvars, pvars, rpvars, iparams, recycle, icancel>>

\* read_trailer returns res.
IterTrailer(res) ==
    /\ wk.pc = "trailer"
    /\ res \in ReadOutcomes(iparams.trailer_size, trailer_read_buf_len(iparams))
    /\ IF res = "Ok" THEN IterPassed("trailer", "build") ELSE IterFailed("trailer", res)
    /\ UNCHANGED <<svars, bvars, lvars, chvars, pvars, rpvars, iparams, recycle, icancel>>

\* PayloadBuilder::build takes payload_buf; its payload goes to try_send,
\* which accepts it or drops it.
IterBuild(built, accepted) ==
    /\ wk.pc = "build"
    /\ IF built = "Ok"
       THEN /\ wk' = Locals("check", None, None, wk.src)
            /\ ilog' = [ilog EXCEPT !.sent = Append(@, <<"Ok", wk.payload_buf[1], accepted>>)]
            /\ UNCHANGED tally
       ELSE IterFailed("build", built)
    /\ UNCHANGED <<svars, bvars, lvars, chvars, pvars, rpvars, iparams, recycle, icancel>>

\* The consumer returns a buffer of len bytes into the recycling channel.
SendBack(len) ==
    /\ wk.pc # "done"
    /\ tally.given < MaxGiven
    /\ recycle' = Append(recycle, len)
    /\ tally' = [tally EXCEPT !.given = @ + 1]
    /\ UNCHANGED <<svars, bvars, lvars, chvars, pvars, rpvars, wk, iparams, ilog, icancel>>

\* stop_streaming_loop sends the cancellation signal.
IterCancel ==
    /\ ~icancel
    /\ wk.pc # "done"
    /\ icancel' = TRUE
    /\ UNCHANGED <<svars, bvars, lvars, chvars, pvars, rpvars, wk, iparams, recycle, ilog, tally>>

IterNext ==
    \/ IterCheck
    \/ \E res \in RecvOutcomes \cup {"BufferTooSmall"} : IterLeader(res)
    \/ \E res \in PollOutcomes : IterPayload(res)
    \/ \E res \in RecvOutcomes \cup {"BufferTooSmall"} : IterTrailer(res)
    \/ \E built \in BuildResults, accepted \in BOOLEAN : IterBuild(built, accepted)
    \/ \E len \in RecycledLens : SendBack(len)
    \/ IterCancel

SpecIter == IterInit /\ [][IterNext]_vars

(***************************************************************************)
(* SpecReadPayload: one call of read_payload, statement by statement.      *)
(***************************************************************************)

\* Parameters with every payload field up to MaxSize.
ReadPayloadParams ==
    {StreamParams(0, 0, s, c, f1, f2) :
        s \in 0..MaxSize, c \in 0..MaxSize, f1 \in 0..MaxSize, f2 \in 0..MaxSize}

\* The statement that runs after the for loop has made n passes and
\* statement pc has run: the next pass, a final submit, or the poll loop.
next_statement(pc, n, p) ==
    IF pc = "loop" /\ n < p.payload_count THEN "loop"
    ELSE IF pc = "loop" /\ p.payload_final1_size # 0 THEN "final1"
    ELSE IF pc \in {"loop", "final1"} /\ p.payload_final2_size # 0 THEN "final2"
    ELSE "poll"

\* The length of the slice a submit statement takes.
slice_len(pc, p) ==
    IF pc = "loop" THEN p.payload_size
    ELSE IF pc = "final1" THEN p.payload_final1_size
    ELSE p.payload_final2_size

\* cursor += size after the submits of the loop and of final1.
cursor_not_moved(pc, cursor, len) == cursor
cursor_after(pc, cursor, len) == IF pc = "final2" THEN cursor ELSE cursor + len

\* read_len += async_pool.poll(timeout)?
read_len_after(read_len, n) == read_len + n

ReadPayloadInit ==
    /\ HandleInit /\ BuildIdle /\ LoopIdle /\ ChannelIdle /\ ParamsIdle /\ IterIdle
    /\ \E p \in ReadPayloadParams :
          \E buflen \in (0..MaxBuf) \cup {maximum_payload_size(p)} :
             rp = PayloadCall(next_statement("loop", 0, p), p, buflen, 0, 0, 0, <<"none">>)
    /\ pool = AsyncPool(<<>>, 0, <<>>)

\* async_pool.submit(&mut buf[cursor..cursor + len])? of the loop, of
\* final1 or of final2; res is what submit returns.
PayloadSubmit(res) ==
    /\ rp.pc \in {"loop", "final1", "final2"}
    /\ LET len == slice_len(rp.pc, rp.p)
           n == IF rp.pc = "loop" THEN rp.submitted + 1 ELSE rp.submitted
       IN IF rp.cursor + len > rp.buflen
          THEN \* the slice index panics: unwinding drops the pool
               /\ rp' = [rp EXCEPT !.pc = "done", !.ret = <<"panic">>]
               /\ pool' = [pool EXCEPT !.pending = 0]
          ELSE IF res # "Ok"
          THEN /\ rp' = [rp EXCEPT !.pc = "done", !.ret = <<"Err", res>>]
               /\ pool' = [pool EXCEPT !.pending = 0]
          ELSE /\ rp' = [rp EXCEPT !.pc = next_statement(rp.pc, n, rp.p),
                                   !.submitted = n,
                                   !.cursor = cursor_after(rp.pc, rp.cursor, len)]
               /\ pool' = [pool EXCEPT !.slices = Append(@, <<rp.cursor, len>>),
                                       !.pending = @ + 1]
    /\ UNCHANGED <<svars, bvars, lvars, chvars, pvars, ivars>>

\* while !async_pool.is_empty() { read_len += async_pool.poll(timeout)?; }
\* with a poll that reports the n bytes of a completed transfer.
PayloadPoll(n) ==
    /\ rp.pc = "poll"
    /\ pool.pending > 0
    /\ rp' = [rp EXCEPT !.read_len = read_len_after(@, n)]
    /\ pool' = [pool EXCEPT !.pending = @ - 1, !.polled = Append(@, n)]
    /\ UNCHANGED <<svars, bvars, lvars, chvars, pvars, ivars>>

\* The poll returns Err(e): ? returns it and the pool is dropped.
PayloadPollFailed(e) ==
    /\ rp.pc = "poll"
    /\ pool.pending > 0
    /\ rp' = [rp EXCEPT !.pc = "done", !.ret = <<"Err", e>>]
    /\ pool' = [pool EXCEPT !.pending = 0]
    /\ UNCHANGED <<svars, bvars, lvars, chvars, pvars, ivars>>

\* Ok(read_len)
PayloadReturn ==
    /\ rp.pc = "poll"
    /\ pool.pending = 0
    /\ rp' = [rp EXCEPT !.pc = "done", !.ret = <<"Ok", rp.read_len>>]
    /\ UNCHANGED <<svars, bvars, lvars, chvars, pvars, ivars, pool>>

ReadPayloadNext ==
    \/ \E res \in SubmitOutcomes : PayloadSubmit(res)
    \/ \E n \in 0..MaxSize : PayloadPoll(n)
    \/ \E e \in TransportErrors : PayloadPollFailed(e)
    \/ PayloadReturn

SpecReadPayload == ReadPayloadInit /\ [][ReadPayloadNext]_vars

(***************************************************************************)
(* Properties of the stream handle and its streaming loop.                 *)
(***************************************************************************)

\* Positions of a worker inside the loop of run, and those of a worker that
\* has not yet sent its completion signal.
InLoop == {"check", "leader", "leader_rx", "payload", "payload_poll",
           "trailer", "trailer_rx", "build"}
NotStopped == InLoop \cup {"lock", "complete"}
\* Positions of a worker that has sent its completion signal: before the
\* drop of its MutexGuard, before the drop of the StreamingLoop, ended.
AfterLoop == {"unlock", "drop", "dead"}
Returned(op) == cpc \in {"returned", "dropped"} /\ last.op = op

\* C1: after start_streaming_loop returns Ok the loop is running; after
\* stop_streaming_loop returns, and after close (also through drop)
\* returns, with Ok or with an error, the loop is not running.
C1_LoopRunningAfterCalls ==
    /\ Returned("start") /\ last.res = "Ok" => is_loop_running
    /\ Returned("stop") => ~is_loop_running
    /\ Returned("close") \/ Returned("drop") => ~is_loop_running
\* close was called on a running loop and returned an error.
C1_Witness ==
    Returned("close") /\ last.running /\ last.res # "Ok"

\* C2: while the loop is running no read method gets as far as the lock or
\* a receive, and every read call that has finished returned InStreaming.
C2_ReadsRefusedWhileRunning ==
    \A r \in Readers :
        is_loop_running =>
            /\ rpc[r] \notin {"lock", "recv"}
            /\ rpc[r] = "done" => rres[r] = "InStreaming"
\* read_trailer was refused while the worker was inside a receive.
C2_Witness ==
    \E r \in Readers, w \in Workers :
        /\ is_loop_running /\ rpc[r] = "done" /\ rkind[r] = "trailer"
        /\ rres[r] = "InStreaming" /\ wpc[w] = "leader_rx"

\* C3: at most one worker that has not yet sent its completion exists.
C3_AtMostOneWorker ==
    Cardinality({w \in Workers : wpc[w] \in NotStopped}) <= 1
\* A new worker was spawned while the stopped one has not returned from run.
C3_Witness ==
    \E w, v \in Workers : wpc[w] = "unlock" /\ wpc[v] \in NotStopped

\* C4: every start_streaming_loop call made while the loop is running
\* fails with InStreaming.
C4_StartWhileRunningIsInStreaming ==
    Returned("start") /\ last.running => last.res = "InStreaming"

\* The parties inside a receive on the channel.
Receiving ==
    {<<"w", w>> : w \in {v \in Workers : wpc[v] \in {"leader_rx", "payload_poll", "trailer_rx"}}}
    \cup {<<"r", r>> : r \in {q \in Readers : rpc[q] = "recv"}}

\* C5: at most one party, read call or worker, is inside a receive on the
\* channel at any time, and it is the holder of the mutex.
C5_ExclusiveReceive ==
    /\ Cardinality(Receiving) <= 1
    /\ \A x \in Receiving : mutex = x
\* A read call made right after stop waits for the lock the stopped worker
\* still holds.
C5_Witness ==
    \E w \in Workers, r \in Readers : wpc[w] = "unlock" /\ mutex = <<"w", w>> /\ rpc[r] = "lock"

\* C6: when stop_streaming_loop, called on a running loop, returns Ok, the
\* worker has left its loop and sent the completion; a worker whose
\* completion is sent is outside the loop for good.
C6_StopAfterCompletion ==
    /\ Returned("stop") /\ last.running /\ last.res = "Ok" =>
            complete[last.w] = "sent" /\ wpc[last.w] \in AfterLoop
    /\ \A w \in Workers : complete[w] = "sent" => wpc[w] \in AfterLoop
\* stop returned Ok while the worker has not yet returned from run.
C6_Witness ==
    Returned("stop") /\ last.running /\ last.res = "Ok" /\ wpc[last.w] = "unlock"

\* C7: a stop_streaming_loop call made on a running handle whose worker
\* has already ended (its cancellation receiver dropped) returns Ok.
C7_StopAfterWorkerExitIsOk ==
    [][(cpc = "ready" /\ is_loop_running /\ wpc[cancellation_tx] = "dead"
        /\ last'.op = "stop") => last'.res = "Ok"]_vars

\* C8: after its cancel signal was sent a worker has at most one timed-out
\* recv or poll.
C8_OneTimeoutAfterCancel ==
    \A w \in Workers : timeouts[w] <= 1
\* The stop caller waits while the worker comes back from the one timeout.
C8_Witness ==
    \E w \in Workers : timeouts[w] = 1 /\ wpc[w] = "check" /\ cpc = "stop_wait" /\ cw = w

\* C9: once its cancel signal is sent (or the sender dropped) the first
\* cancellation check of a worker leaves the loop, and the worker begins no
\* leader read.
C9_StopAtNextCheck ==
    [][\A w \in Workers :
          cancel[w] # "empty" =>
              /\ (wpc[w] = "check" /\ wpc'[w] # "check") => wpc'[w] = "complete"
              /\ ~(wpc[w] # "leader" /\ wpc'[w] = "leader")]_vars
\* The cancel signal arrived while the worker was inside the trailer receive.
C9_Witness ==
    \E w \in Workers : cancel[w] = "sent" /\ wpc[w] = "trailer_rx"

\* The events after which the worker has to go on.
ErrorEvents == {"leader_sent", "leader_skipped", "payload_err", "trailer_err",
                "build_err", "send_full", "send_closed"}

\* C10: a worker leaves its loop only at the cancellation check and only
\* when cancelled; after every read, build or send failure it is at the
\* top of the loop.
C10_LeavesLoopOnlyOnCancel ==
    [][\A w \in Workers :
          /\ (wpc[w] \in InLoop /\ wpc'[w] \notin InLoop) =>
                 (wpc[w] = "check" /\ cancel[w] # "empty")
          /\ (wev'[w] # wev[w] /\ wev'[w] \in ErrorEvents) => wpc'[w] = "check"]_vars
\* The worker is back at the top of the loop after a send to a closed queue.
C10_Witness ==
    \E w \in Workers : wpc[w] = "check" /\ wev[w] = "send_closed" /\ cancel[w] = "empty"

(***************************************************************************)
(* Properties of the payload builder.                                      *)
(***************************************************************************)

Built == bres # NotBuilt
\* The block passes the two checks of build and both specialisations, so
\* that build_image_extended_payload walks its chunk records.
Walked ==
    /\ Built
    /\ blk.payload_type = "ImageExtendedChunk"
    /\ blk.payload_status = "Success"
    /\ blk.valid_payload_size <= blk.read_payload_size
    /\ blk.leader_ok /\ blk.trailer_ok

\* C11: an Ok(Payload) comes only from a block whose trailer status is
\* Success and whose valid_payload_size is at most the number of payload
\* bytes read; a block that breaks either condition yields InvalidPayload.
C11_OnlyCompleteBlocksDelivered ==
    /\ bres.kind = "Ok" =>
          /\ blk.payload_status = "Success"
          /\ blk.valid_payload_size <= blk.read_payload_size
    /\ (Built /\ (blk.payload_status # "Success"
                  \/ blk.valid_payload_size > blk.read_payload_size)) =>
          bres.kind = "InvalidPayload"

\* A block with status Success that lacks exactly one byte has been refused.
C11_Witness ==
    /\ bres.kind = "InvalidPayload"
    /\ blk.payload_status = "Success"
    /\ blk.leader_ok /\ blk.trailer_ok
    /\ blk.valid_payload_size = blk.read_payload_size + 1

\* C12: a delivered Image payload has image_info, and its image_size is the
\* trailer's valid_payload_size, which is also the payload's
\* valid_payload_size.
C12_ImageSizeIsValidPayloadSize ==
    (bres.kind = "Ok" /\ bres.payload_type = "Image") =>
        /\ bres.has_image_info
        /\ bres.image_size = blk.valid_payload_size
        /\ bres.valid_payload_size = blk.valid_payload_size

\* An Image payload whose block was read with more bytes than are valid.
C12_Witness ==
    /\ bres.kind = "Ok" /\ bres.payload_type = "Image"
    /\ blk.valid_payload_size > 0
    /\ blk.valid_payload_size < blk.read_payload_size

\* The cursors of the backward walk as the specification words it: from
\* cursor, take 4 for the size field and then chunk_data_size + 4, for as
\* long as a size field lies before the cursor.
RECURSIVE Cursors(_, _)
Cursors(buf, cursor) ==
    IF cursor < 4 THEN <<cursor>>
    ELSE <<cursor>> \o
         Cursors(buf, (cursor - 4) - (from_be_bytes(buf, cursor - 4) + 4))

LastCursor(buf, valid) == Cursors(buf, valid)[Len(Cursors(buf, valid))]
LandsOnZero(buf, valid) == Len(Cursors(buf, valid)) >= 2 /\ LastCursor(buf, valid) = 0
\* The chunk_data_size decoded in the last step of a walk of two or more cursors.
LastDataSize(buf, valid) ==
    from_be_bytes(buf, Cursors(buf, valid)[Len(Cursors(buf, valid)) - 1] - 4)

\* C13: an ImageExtendedChunk payload is delivered only when the backward
\* walk from valid_payload_size lands on cursor 0, its image_size is then
\* the last decoded chunk_data_size, and every walk that does not land on 0
\* yields InvalidPayload.
C13_WalkLandsOnZero ==
    /\ (bres.kind = "Ok" /\ bres.payload_type = "ImageExtendedChunk") =>
          /\ LandsOnZero(blk.payload_buf, blk.valid_payload_size)
          /\ bres.image_size = LastDataSize(blk.payload_buf, blk.valid_payload_size)
    /\ (Built /\ blk.payload_type = "ImageExtendedChunk"
              /\ ~LandsOnZero(blk.payload_buf, blk.valid_payload_size)) =>
          bres.kind = "InvalidPayload"

\* A payload delivered after a walk over two records, the first not empty.
C13_Witness ==
    /\ bres.kind = "Ok" /\ bres.payload_type = "ImageExtendedChunk"
    /\ Len(Cursors(blk.payload_buf, blk.valid_payload_size)) = 3
    /\ bres.image_size > 0

\* Largest data size of a record of the layouts of C14.
MaxData == 2
\* Largest number of records of the layouts of C14.
MaxRecords == 3

\* Lists of the data sizes N of consecutive records.
RecordLists == UNION { [1..n -> 0..MaxData] : n \in 1..MaxRecords }

\* Length of the first k records [chunk_id: 4][data: N][data_size: 4].
RECURSIVE RecordsEnd(_, _)
RecordsEnd(ns, k) == IF k = 0 THEN 0 ELSE RecordsEnd(ns, k - 1) + ns[k] + 8

\* The four bytes of n, most significant first.
BigEndian(n) == <<n \div 16777216, (n \div 65536) % 256, (n \div 256) % 256, n % 256>>

\* buf holds, from offset start on, records with the data sizes ns, each
\* closed by its data size as four big-endian bytes.
RecordsAt(buf, start, ns) ==
    /\ start + RecordsEnd(ns, Len(ns)) <= Len(buf)
    /\ \A k \in 1..Len(ns) : \A i \in 1..4 :
          buf[start + RecordsEnd(ns, k) - 4 + i] = BigEndian(ns[k])[i]

\* C14 as stated: image data of I bytes followed by records, with
\* valid_payload_size = I + the sum of (N + 8), gives image_size = I.
C14_RawImageThenRecords ==
    \A I \in 0..MaxData, ns \in RecordLists :
        (/\ Walked
         /\ RecordsAt(blk.payload_buf, I, ns)
         /\ blk.valid_payload_size = I + RecordsEnd(ns, Len(ns)))
        => (bres.kind = "Ok" /\ bres.image_size = I)

\* C14: when the payload buffer consists of records only, the first of which
\* holds the image data of I bytes as its data, and valid_payload_size is
\* the sum of (N + 8) over all records, that of the image included, the
\* backward walk returns image_size = I.
C14_ImageIsFirstRecord ==
    \A ns \in RecordLists :
        (/\ Walked
         /\ RecordsAt(blk.payload_buf, 0, ns)
         /\ blk.valid_payload_size = RecordsEnd(ns, Len(ns)))
        => (bres.kind = "Ok" /\ bres.image_size = ns[1])

\* The layout of scenario S3 in small: an image record of 1 byte followed
\* by records of 1 and 0 data bytes has been walked.
C14_Witness ==
    /\ Walked
    /\ RecordsAt(blk.payload_buf, 0, <<1, 1, 0>>)
    /\ blk.valid_payload_size = 26
    /\ bres.kind = "Ok" /\ bres.image_size = 1

\* C15: the walk fails with "size field missing" exactly when fewer than 4
\* bytes lie before the cursor at which a size field is to be read, with
\* "chunk data size is smaller than specified size" exactly when the decoded
\* chunk_data_size + 4 exceeds the cursor, and in no other way.
C15_WalkFailures ==
    Walked =>
        LET final == LastCursor(blk.payload_buf, blk.valid_payload_size)
            landed == LandsOnZero(blk.payload_buf, blk.valid_payload_size)
        IN  /\ (final \in 0..3 /\ ~landed) <=>
                  (bres.kind = "InvalidPayload" /\ bres.msg = "size field missing")
            /\ (final < 0) <=>
                  (/\ bres.kind = "InvalidPayload"
                   /\ bres.msg = "chunk data size is smaller than specified size")
            /\ bres.kind # "Ok" =>
                  /\ bres.kind = "InvalidPayload"
                  /\ bres.msg \in {"size field missing",
                                   "chunk data size is smaller than specified size"}

\* A walk that passed one record and then found fewer than 4 bytes left.
C15_Witness ==
    /\ Walked
    /\ Len(Cursors(blk.payload_buf, blk.valid_payload_size)) = 2
    /\ LastCursor(blk.payload_buf, blk.valid_payload_size) \in 1..3
    /\ bres.msg = "size field missing"

(***************************************************************************)
(* Properties of the buffers of the read methods and of the worker.        *)
(***************************************************************************)

\* The size a read method requires of its buffer.
RequiredSize(kind) ==
    CASE kind = "leader" -> params.leader_size
      [] kind = "payload" -> maximum_payload_size(params)
      [] kind = "trailer" -> params.trailer_size
      [] OTHER -> 0

\* C16: while the loop is not running, a read method called with a buffer
\* shorter than the size it requires returns BufferTooSmall, and it does so
\* at once, without a receive from the channel.
C16_ShortBufferIsBufferTooSmall ==
    [][\A r \in Readers :
          (/\ rpc[r] = "lock" /\ rpc'[r] # "lock"
           /\ ~poisoned
           /\ rbuf[r] < RequiredSize(rkind[r]))
          => (rpc'[r] = "done" /\ rres'[r] = "BufferTooSmall")]_vars

\* The same for read_leader and read_trailer alone.
LeaderTrailerShortBufferIsBufferTooSmall ==
    [][\A r \in Readers :
          (/\ rpc[r] = "lock" /\ rpc'[r] # "lock"
           /\ ~poisoned
           /\ rkind[r] \in {"leader", "trailer"}
           /\ rbuf[r] < RequiredSize(rkind[r]))
          => (rpc'[r] = "done" /\ rres'[r] = "BufferTooSmall")]_vars

\* C17: the worker never meets BufferTooSmall: the buffer it passes to its
\* leader read holds leader_size bytes and the one it passes to its trailer
\* read holds trailer_size bytes, whatever the StreamParams.
C17_WorkerBuffersFit ==
    \A w \in Workers :
        /\ wpc[w] = "leader" =>
              /\ leader_read_buf_len(wparams[w]) >= wparams[w].leader_size
              /\ RecvEntry(wparams[w].leader_size,
                           leader_read_buf_len(wparams[w])) # "BufferTooSmall"
        /\ wpc[w] = "trailer" =>
              /\ trailer_read_buf_len(wparams[w]) >= wparams[w].trailer_size
              /\ RecvEntry(wparams[w].trailer_size,
                           trailer_read_buf_len(wparams[w])) # "BufferTooSmall"

(***************************************************************************)
(* Properties of the order of a session.                                   *)
(***************************************************************************)

\* C18: what the worker sends to the consumer is in the order in which it
\* read the leaders of the blocks: along the sends the number of leaders
\* read never decreases, no two outcomes of blocks belong to the same
\* leader or to leaders in the other order, and an Ok payload carries the
\* id of the leader of its own block, whether or not the ids increase.
C18_SentInLeaderOrder ==
    /\ \A i \in 1..Len(sends) :
          /\ sends[i].leaders \in 0..Len(seen)
          /\ sends[i].of_block => sends[i].leaders >= 1
          /\ sends[i].kind = "Ok" =>
                (sends[i].of_block /\ sends[i].id = seen[sends[i].leaders])
    /\ \A i \in 1..Len(sends), j \in 1..Len(sends) :
          i < j =>
            /\ sends[i].leaders <= sends[j].leaders
            /\ (sends[i].of_block /\ sends[j].of_block) =>
                  sends[i].leaders < sends[j].leaders

\* Three blocks whose ids do not increase have been delivered, with an
\* error report between them.
C18_Witness ==
    /\ Len(sends) = 4 /\ Len(seen) = 3
    /\ seen[1] > seen[2]
    /\ \E i \in 1..4 : sends[i].kind = "Err"
    /\ Cardinality({i \in 1..4 : sends[i].kind = "Ok"}) = 3

(***************************************************************************)
(* Properties of the channels and of the error conversions.                *)
(***************************************************************************)

\* C19: open and close of both channels are idempotent: open on an opened
\* channel claims nothing and leaves is_opened true, close on a channel that
\* is not opened releases nothing and leaves is_opened false, and a channel
\* holds at most one claim of its interface, exactly when it is opened.
C19_OpenCloseIdempotent ==
    /\ \A ch \in Channels :
          /\ chan[ch].claimed \in {0, 1}
          /\ chan[ch].is_opened <=> chan[ch].claimed = 1
    /\ (call.op = "open" /\ call.was_opened) =>
          (~call.iface /\ call.res = NoError /\ chan[call.ch].is_opened)
    /\ (call.op = "close" /\ ~call.was_opened) =>
          (~call.iface /\ call.res = NoError /\ ~chan[call.ch].is_opened)

\* The receive channel is opened and open has just been called on it again.
C19_Witness ==
    /\ call = ChannelCall("receive", "open", TRUE, FALSE, NoError)
    /\ chan["receive"] = Channel(TRUE, 1)

Converted == gerr # NoError

\* C20 as stated: both conversions give the same kind for every error
\* except device-busy, which is Io on the stream plane and Busy on the
\* control plane.
C20_SameKindExceptBusy ==
    Converted =>
        IF gerr = LibUsb("Busy") THEN serr = "Io" /\ cerr = "Busy"
        ELSE serr = cerr

\* C20: both conversions give the same kind for every error except two:
\* device-busy is Io on the stream plane and Busy on the control plane, and
\* invalid-device is Io on the stream plane and InvalidDevice on the control
\* plane.
C20_SameKindExceptBusyAndInvalidDevice ==
    Converted =>
        IF gerr = LibUsb("Busy") THEN serr = "Io" /\ cerr = "Busy"
        ELSE IF gerr = InvalidDevice THEN serr = "Io" /\ cerr = "InvalidDevice"
        ELSE serr = cerr

\* An invalid-device error has been converted for both planes.
C20_Witness ==
    gerr = InvalidDevice /\ cerr = "InvalidDevice" /\ serr = "Io"

(***************************************************************************)
(* Further properties of the stream handle.                                *)
(***************************************************************************)

\* C21: a start_streaming_loop called while idle that fails (while idle only
\* parameter discovery can fail: a register read error or no SIRM) returns
\* Io, spawns no worker, installs no signal, changes nothing of the handle,
\* and the loop is not running afterwards.
C21_FailedDiscoveryChangesNothing ==
    [][(/\ cpc = "ready" /\ cpc' = "returned"
        /\ last'.op = "start" /\ last'.res # "Ok"
        /\ ~is_loop_running)
       => (/\ last'.res = "Io"
           /\ wpc' = wpc
           /\ cancellation_tx' = 0 /\ completion_rx' = 0
           /\ UNCHANGED <<hvars, wvars>>)]_vars

\* start_streaming_loop has returned Io to a caller whose loop was idle.
C21_Witness ==
    /\ cpc = "returned" /\ last = Ret("start", "Io", FALSE, 0)
    /\ ~is_loop_running

\* C22: a running worker keeps the StreamParams it was started with: no step
\* of the handle (params_mut, a later start_streaming_loop, stop, close) or
\* of any thread changes the snapshot of a worker that stays alive, and the
\* sizes and counts of the worker's leader, payload and trailer reads are
\* those of its snapshot, whatever the handle's params are by then.
C22_WorkerKeepsItsSnapshot ==
    [][\A w \in Workers :
          /\ (wpc[w] \notin {"free", "dead"} /\ wpc'[w] \notin {"free", "dead"})
                => wparams'[w] = wparams[w]
          /\ (wpc[w] = "leader" /\ wpc'[w] = "leader_rx")
                => RecvEntry(wparams[w].leader_size,
                             leader_read_buf_len(wparams[w])) = "recv"
          /\ (wpc[w] = "leader" /\ wpc'[w] = "payload")
                => RecvEntry(wparams[w].leader_size,
                             leader_read_buf_len(wparams[w])) = "Ok"
          /\ (wpc[w] = "payload" /\ wpc'[w] = "payload_poll")
                => polls'[w] = SubmitCount(wparams[w])
          /\ (wpc[w] = "payload" /\ wpc'[w] = "trailer")
                => SubmitCount(wparams[w]) = 0
          /\ (wpc[w] = "trailer" /\ wpc'[w] = "trailer_rx")
                => RecvEntry(wparams[w].trailer_size,
                             trailer_read_buf_len(wparams[w])) = "recv"]_vars

\* A worker started with a three-slice payload is polling its payload reads
\* after params_mut stored the all-zero parameters in the handle.
C22_Witness ==
    \E w \in Workers :
       /\ wpc[w] = "payload_poll"
       /\ wparams[w] = StreamParams(1, 1, 1, 2, 1, 0)
       /\ params = DefaultParams
       /\ cancellation_tx = w

\* C25: in every state of the handle cancellation_tx is Some exactly when
\* completion_rx is Some, also after a stop_streaming_loop or a close that
\* returned an error.
C25_SignalsSetTogether ==
    (cancellation_tx # 0) <=> (completion_rx # 0)

\* stop_streaming_loop, or close, has returned Poisoned for a worker that
\* had already ended, and both fields are None.
C25_Witness ==
    /\ cpc = "returned"
    /\ last.op \in {"stop", "close"}
    /\ last.res = "Poisoned"
    /\ cancellation_tx = 0 /\ completion_rx = 0

\* C23: for every StreamParams over machine words, maximum_payload_size()
\* returns payload_size * payload_count + payload_final1_size +
\* payload_final2_size, the sum over the integers: no overflow changes it.
C23_MaximumPayloadSizeIsTheSum ==
    mcall.ret # NotCalled
        => mcall.ret = Value(mcall.p.payload_size * mcall.p.payload_count
                             + mcall.p.payload_final1_size
                             + mcall.p.payload_final2_size)

(***************************************************************************)
(* Properties of the iterations of the streaming loop.                     *)
(***************************************************************************)

\* Three iterations have run, each delivered a payload, and the recycled-
\* buffer channel held exactly one buffer of maximum_payload_size bytes
\* when the loop started.
ThreeCleanBlocks ==
    /\ wk.pc = "check"
    /\ tally.iters = 3 /\ tally.clean
    /\ tally.preloaded = <<maximum_payload_size(iparams)>>

\* C24 as stated: in a run of three successful blocks that starts with one
\* buffer of maximum_payload_size bytes in the recycled-buffer channel, the
\* worker allocates a payload buffer exactly once.
C24_ExactlyOneAllocation ==
    ThreeCleanBlocks => tally.allocs = 1

\* C24, amended: in such a run every iteration takes a buffer from the
\* channel if one waits there and allocates otherwise; the first takes the
\* preloaded one, so there are at most two allocations, exactly two when
\* the consumer returns no buffer during the run, and as many fewer as
\* returned buffers were taken.
C24_AllocationsOfThreeBlocks ==
    ThreeCleanBlocks =>
        /\ tally.allocs + tally.taken = 3
        /\ tally.taken >= 1 /\ tally.taken <= 1 + tally.given
        /\ tally.given = 0 => tally.allocs = 2

\* Three clean blocks, nothing returned by the consumer: two allocations.
C24_Witness ==
    /\ ThreeCleanBlocks
    /\ tally.given = 0 /\ tally.allocs = 2 /\ tally.taken = 1

\* C26: an iteration whose leader read failed has sent the error to the
\* consumer exactly when it is Io or Disconnected, and nothing otherwise;
\* it has made no payload and no trailer read, and the worker is back at
\* the top of the loop.
C26_LeaderFailure ==
    ilog.fail[1] = "leader" =>
        /\ wk.pc = "check"
        /\ ilog.reads = <<"leader">>
        /\ ilog.sent = IF ilog.fail[2] \in {"Io", "Disconnected"}
                       THEN << <<"Err", ilog.fail[2]>> >> ELSE <<>>

\* A leader read timed out: nothing was sent.
C26_Witness ==
    /\ ilog.fail = <<"leader", "Timeout">>
    /\ ilog.sent = <<>>
    /\ wk.pc = "check"

\* C27: an iteration whose payload read or trailer read failed, with any
\* error, has sent exactly one item, the Err of that error, so no payload
\* of the block, and the worker is back at the top of the loop.
C27_PayloadOrTrailerFailure ==
    ilog.fail[1] \in {"payload", "trailer"} =>
        /\ wk.pc = "check"
        /\ ilog.sent = << <<"Err", ilog.fail[2]>> >>
        /\ ilog.reads[Len(ilog.reads)] = ilog.fail[1]

\* A payload read timed out and the Timeout was sent.
C27_Witness ==
    /\ ilog.fail = <<"payload", "Timeout">>
    /\ ilog.sent = << <<"Err", "Timeout">> >>
    /\ wk.pc = "check"

\* C28: the buffer retention rule.  A failed leader, payload or trailer read
\* keeps the payload buffer, and the next iteration uses that buffer: it
\* takes nothing from the recycled-buffer channel and allocates nothing.  A
\* failed build and a payload handed to try_send keep no buffer, and the
\* next iteration takes a recycled buffer if there is one and allocates
\* otherwise.
C28_BufferRetention ==
    [][/\ (wk.pc \in {"leader", "payload", "trailer"} /\ wk'.pc = "check")
            => wk'.payload_buf_opt = wk.payload_buf
       /\ (wk.pc = "build" /\ wk'.pc = "check")
            => wk'.payload_buf_opt = None
       /\ (wk.pc = "check" /\ wk'.pc = "leader")
            => IF ilog.fail[1] \in {"leader", "payload", "trailer"}
               THEN /\ wk'.src = "retained"
                    /\ wk'.payload_buf = wk.payload_buf_opt
                    /\ wk.payload_buf_opt # None
                    /\ recycle' = recycle
                    /\ tally'.allocs = tally.allocs /\ tally'.taken = tally.taken
               ELSE /\ wk.payload_buf_opt = None
                    /\ IF recycle # <<>>
                       THEN /\ wk'.src = "recycled"
                            /\ recycle' = Tail(recycle)
                            /\ tally'.allocs = tally.allocs
                            /\ tally'.taken = tally.taken + 1
                       ELSE /\ wk'.src = "fresh"
                            /\ tally'.allocs = tally.allocs + 1
                            /\ tally'.taken = tally.taken]_vars

\* An iteration runs on the retained buffer while a returned buffer waits
\* in the channel.
C28_Witness ==
    /\ wk.pc = "leader" /\ wk.src = "retained"
    /\ recycle # <<>>
    /\ tally.iters = 2

\* C29: the buffer an iteration hands to the reads is exactly
\* maximum_payload_size bytes long, wherever it came from, and so is the
\* buffer of every payload it delivers.
C29_PayloadBufferLength ==
    /\ wk.pc \in {"leader", "payload", "trailer", "build"}
         => wk.payload_buf = Some(maximum_payload_size(iparams))
    /\ \A i \in 1..Len(ilog.sent) :
         ilog.sent[i][1] = "Ok" => ilog.sent[i][2] >= maximum_payload_size(iparams)

\* The payload read is about to run on a buffer that came back longer than
\* maximum_payload_size.
C29_Witness ==
    /\ wk.pc = "payload" /\ wk.src = "recycled"
    /\ tally.iters = 1
    /\ tally.preloaded # <<>>
    /\ tally.preloaded[1] > maximum_payload_size(iparams)

(***************************************************************************)
(* Properties of read_payload.                                             *)
(***************************************************************************)

RECURSIVE SumOf(_)
SumOf(q) == IF q = <<>> THEN 0 ELSE Head(q) + SumOf(Tail(q))

\* C30: a read_payload that returns Ok has submitted payload_count slices
\* of payload_size bytes, then one of payload_final1_size bytes if that is
\* not zero, then one of payload_final2_size bytes if that is not zero; the
\* first slice starts at offset 0, each next one where the one before it
\* ends, the last one ends at maximum_payload_size; and the value returned
\* is the sum of the byte counts poll reported until the pool was empty.
C30_ReadPayloadSlices ==
    rp.ret[1] = "Ok" =>
        LET p == rp.p
            sl == pool.slices
            n1 == IF p.payload_final1_size # 0 THEN 1 ELSE 0
            n2 == IF p.payload_final2_size # 0 THEN 1 ELSE 0
            ends == [i \in 1..Len(sl) |-> sl[i][1] + sl[i][2]]
        IN /\ Len(sl) = p.payload_count + n1 + n2
           /\ \A i \in 1..p.payload_count : sl[i][2] = p.payload_size
           /\ n1 = 1 => sl[p.payload_count + 1][2] = p.payload_final1_size
           /\ n2 = 1 => sl[p.payload_count + n1 + 1][2] = p.payload_final2_size
           /\ \A i \in 1..Len(sl) : sl[i][1] = IF i = 1 THEN 0 ELSE ends[i - 1]
           /\ (IF sl = <<>> THEN 0 ELSE ends[Len(sl)])
                 = p.payload_size * p.payload_count
                   + p.payload_final1_size + p.payload_final2_size
           /\ pool.pending = 0
           /\ rp.ret[2] = SumOf(pool.polled)

\* Two slices of the loop and both final slices were submitted, and the
\* polls reported bytes.
C30_Witness ==
    /\ rp.ret[1] = "Ok" /\ rp.ret[2] > 2
    /\ rp.p.payload_count = 2 /\ rp.p.payload_size = 1
    /\ rp.p.payload_final1_size = 2 /\ rp.p.payload_final2_size = 1
    /\ Len(pool.slices) = 4
    /\ pool.polled[1] # pool.polled[2]

(***************************************************************************)
(* Further properties of the builder and of the handle.                    *)
(***************************************************************************)

\* C31: the backward chunk walk ends and stays inside the buffer.  Every
\* iteration either returns an error, or leaves a cursor strictly smaller
\* than the one it started with and never below zero, breaking at zero; no
\* read panics; every size field read lies inside the first
\* valid_payload_size bytes, and these lie inside the buffer.
C31_ChunkWalkTerminatesInBounds ==
    [][(cwalk.pc = "loop" /\ cwalk' # cwalk) =>
          /\ bres'.kind # "panic"
          /\ cwalk'.pc \in {"loop", "done"}
          /\ cwalk'.pc = "loop" =>
                /\ cwalk'.current_offset < cwalk.current_offset
                /\ cwalk'.current_offset > 0
          /\ bres'.kind = "Ok" =>
                cwalk'.current_offset = 0 /\ cwalk.current_offset > 0
          /\ bres'.kind = "InvalidPayload" =>
                cwalk'.current_offset <= cwalk.current_offset
          /\ \A i \in 1..Len(cwalk'.reads) :
                /\ cwalk'.reads[i] >= 0
                /\ cwalk'.reads[i] + CHUNK_SIZE_LEN <= blk.valid_payload_size
          /\ blk.valid_payload_size <= Len(blk.payload_buf)]_vars

\* A walk over three records has ended at offset 0 with a payload.
C31_Witness ==
    /\ cwalk.pc = "done" /\ bres.kind = "Ok"
    /\ Len(cwalk.reads) = 3
    /\ cwalk.reads[1] - cwalk.reads[2] > 8
    /\ cwalk.current_offset = 0

\* C32: a start_streaming_loop call that fails, with InStreaming or with
\* Io, leaves params, cancellation_tx and completion_rx as they were.
C32_FailedStartChangesNothing ==
    [][(/\ cpc = "ready" /\ cpc' = "returned"
        /\ last'.op = "start" /\ last'.res \in {"InStreaming", "Io"})
       => (/\ params' = params
           /\ cancellation_tx' = cancellation_tx
           /\ completion_rx' = completion_rx)]_vars

\* C33: every call of open() returns, also while the streaming loop runs:
\* open does not wait forever for the lock the worker holds.
C33_OpenReturns ==
    (cpc = "open_lock") ~> (cpc = "returned" /\ last.op = "open")

\* C34: the handle is Closed, Open-Idle or Open-Streaming: whenever the
\* loop is running the receive channel is open.
C34_StreamingOnlyWhileOpen ==
    is_loop_running => is_opened

\* close() or drop has returned from a call made while the loop was running.
ClosedWhileStreaming ==
    /\ cpc \in {"returned", "dropped"}
    /\ last.op \in {"close", "drop"}
    /\ last.running

\* C35 as stated: close() and drop on a streaming handle stop the worker
\* before the interface is released, and when the call returns the channel
\* is closed and the loop is not running.
C35_CloseStopsAndCloses ==
    /\ (cpc = "close_lock" /\ cw # 0) =>
          wpc[cw] \in AfterLoop /\ Receiving = {}
    /\ ClosedWhileStreaming => ~is_opened /\ ~is_loop_running

\* C35, amended: close() and drop on a streaming handle stop the worker
\* before the interface is released: while the call waits for the lock to
\* release the interface, the worker has left its loop and nobody is in a
\* receive.  When the call returns the loop is not running; the channel is
\* closed when it returns Ok, the worker having dropped its lock by then,
\* and may still be open when it returns an error (Poisoned from the stop,
\* or the converted error of release_interface).
C35_CloseStopsThenCloses ==
    /\ (cpc = "close_lock" /\ cw # 0) =>
          wpc[cw] \in AfterLoop /\ Receiving = {}
    /\ ClosedWhileStreaming =>
          /\ ~is_loop_running
          /\ last.res = "Ok" => ~is_opened /\ wpc[last.w] \in {"drop", "dead"}
          /\ last.res # "Ok" => last.res \in {"Poisoned"} \cup TransportErrors

\* close() on a streaming, open handle has returned Ok.
C35_Witness ==
    /\ ClosedWhileStreaming /\ last.op = "close" /\ last.res = "Ok"
    /\ ~is_opened /\ wpc[last.w] = "dead"
    /\ wparams[last.w] = DefaultParams

====
